---- MODULE Spec2Model ----
(***************************************************************************)
(* Model of the cw1155-base multi-token ledger contract                    *)
(* (contracts/cw1155-base/src/execute.rs).                                 *)
(*                                                                         *)
(* The persistent state is the contract's storage (balances, approves,     *)
(* tokens, token_count, minter) plus the block height of the chain.  Every *)
(* handler is an operator from (storage, block, sender, arguments) to a    *)
(* response [err, st, event, messages]: `st' is the storage exactly as the *)
(* handler has written it when it returns, also when it returns an error.  *)
(* The Execute action dispatches one message and keeps the written storage *)
(* only when the handler returned Ok.                                      *)
(***************************************************************************)
EXTENDS Integers, Sequences, FiniteSets, TLC

\* ------------------------------------------------------------------ bounds
\* Largest value of the amount type (Uint128::MAX, scaled down).
U128Max == 2
\* Largest amount a message may request.
MaxAmount == 2
\* Longest batch of a BatchSendFrom / BatchBurn message.
MaxBatch == 2
\* Last block height the chain reaches.
MaxHeight == 1
\* Largest number of approvals held in storage at once.
MaxApprovals == 1
\* Largest number of balance records held in storage at once.
MaxRecords == 2
\* Largest max_tokens of a fixed-price sale.
MaxTokens == 2
\* Largest unit_price of a fixed-price sale.
MaxPrice == 2
\* Largest counter value whose decimal string is examined.
MaxTokenId == 120
MaxOperators == 1

\* ------------------------------------------------------------- value sets
Addrs == {"a1", "a2", "a3"}
\* Address strings as they arrive in messages: "" does not validate.
InvalidAddr == ""
AddrStrings == Addrs \cup {InvalidAddr}
TokenIds == {"t1", "t2"}
Uris == {"u1"}
Amounts == 0..MaxAmount

\* Absent entries of the storage maps.
NoBalance == -1
NoToken == "none"
NoExpiration == [kind |-> "None", v |-> 0]
NoAddr == "nobody"

\* InstantiateMsg.minter
Minter == "a1"

\* cw_utils::Expiration; Expiration::default() is Never.
Never == [kind |-> "Never", v |-> 0]
AtHeight(h) == [kind |-> "AtHeight", v |-> h]
AtTime(t) == [kind |-> "AtTime", v |-> t]

\* Seconds between two blocks; the block time is a function of the height.
BlockSeconds == 5
BlockTime(h) == h * BlockSeconds

\* The expirations a message may carry (NoExpiration is `expires: None').
Expirations ==
    {NoExpiration, Never}
        \cup {AtHeight(h) : h \in 1..MaxHeight}
        \cup {AtTime(BlockTime(MaxHeight))}

TokenAmount(t, a) == [token_id |-> t, amount |-> a]

RECURSIVE SeqsUpTo(_, _)
SeqsUpTo(S, n) ==
    IF n = 0 THEN {<<>>}
    ELSE LET shorter == SeqsUpTo(S, n - 1)
         IN shorter \cup {Append(q, x) : q \in {r \in shorter : Len(r) = n - 1}, x \in S}

\* Batches list non-zero amounts of any token, the same token more than once too.
BatchItems == {TokenAmount(t, a) : t \in TokenIds, a \in 1..MaxAmount}
Batches == SeqsUpTo(BatchItems, MaxBatch)

\* ------------------------------------------------------------------ state
VARIABLES balances, approves, tokens, token_count, minter, height,
          sale, minted, nft

vars ==
    <<balances, approves, tokens, token_count, minter, height, sale, minted, nft>>

\* The contract's storage as one value.
Storage ==
    [balances |-> balances, approves |-> approves, tokens |-> tokens,
     token_count |-> token_count, minter |-> minter]

\* ---------------------------------------------------------------- helpers
Min(a, b) == IF a < b THEN a ELSE b

\* deps.api.addr_validate
addr_validate(s) == s \in Addrs

\* Expiration::is_expired(&env.block)
is_expired(ex, h) ==
    CASE ex.kind = "AtHeight" -> h >= ex.v
      [] ex.kind = "AtTime" -> BlockTime(h) >= ex.v
      [] OTHER -> FALSE

\* expires.unwrap_or_default()
unwrap_or_default(ex) == IF ex = NoExpiration THEN Never ELSE ex

Ok(st) == [err |-> "Ok", st |-> st]
Err(e, st) == [err |-> e, st |-> st]

\* Uint128::checked_sub
checked_sub(a, b) == IF a < b THEN [err |-> "Overflow", v |-> 0] ELSE [err |-> "Ok", v |-> a - b]

\* Uint128::checked_add
checked_add(a, b) ==
    IF a + b > U128Max THEN [err |-> "Overflow", v |-> 0] ELSE [err |-> "Ok", v |-> a + b]

\* Cw1155Contract::increment_tokens: token_count[token_id] += amount
increment_tokens(st, token_id, amount) ==
    LET r == checked_add(st.token_count[token_id], amount)
    IN IF r.err # "Ok" THEN Err(r.err, st)
       ELSE Ok([st EXCEPT !.token_count[token_id] = r.v])

\* Cw1155Contract::decrement_tokens: token_count[token_id] -= amount
decrement_tokens(st, token_id, amount) ==
    LET r == checked_sub(st.token_count[token_id], amount)
    IN IF r.err # "Ok" THEN Err(r.err, st)
       ELSE Ok([st EXCEPT !.token_count[token_id] = r.v])

\* ------------------------------------------------------- transfer engine
NoEvent == [kind |-> "none", from |-> NoAddr, to |-> NoAddr, tokens |-> <<>>]
Event(kind, from, to, toks) == [kind |-> kind, from |-> from, to |-> to, tokens |-> toks]

\* The first loop with a wrapping subtraction in place of checked_sub.
RECURSIVE SubtractPassWrapping(_, _, _, _)
SubtractPassWrapping(st, from, toks, i) ==
    IF i > Len(toks) THEN Ok(st)
    ELSE LET key == <<from, toks[i].token_id>>
             cur == st.balances[key]
         IN IF cur = NoBalance THEN Err("Panic", st)
            ELSE SubtractPassWrapping(
                     [st EXCEPT !.balances[key] = (cur - toks[i].amount) % (U128Max + 1)],
                     from, toks, i + 1)

\* The first loop removing a balance record that reaches 0.
RECURSIVE SubtractPassPruning(_, _, _, _)
SubtractPassPruning(st, from, toks, i) ==
    IF i > Len(toks) THEN Ok(st)
    ELSE LET key == <<from, toks[i].token_id>>
             cur == st.balances[key]
         IN IF cur = NoBalance THEN Err("Panic", st)
            ELSE LET r == checked_sub(cur, toks[i].amount)
                 IN IF r.err # "Ok" THEN Err(r.err, st)
                    ELSE SubtractPassPruning(
                             [st EXCEPT !.balances[key] = IF r.v = 0 THEN NoBalance ELSE r.v],
                             from, toks, i + 1)

\* First loop of update_transfer_state: subtract every item from `from'.
RECURSIVE SubtractPass(_, _, _, _)
SubtractPass(st, from, toks, i) ==
    IF i > Len(toks) THEN Ok(st)
    ELSE LET key == <<from, toks[i].token_id>>
             cur == st.balances[key]
         IN IF cur = NoBalance THEN Err("Panic", st)
            ELSE LET r == checked_sub(cur, toks[i].amount)
                 IN IF r.err # "Ok" THEN Err(r.err, st)
                    ELSE SubtractPass([st EXCEPT !.balances[key] = r.v], from, toks, i + 1)

\* The second loop crediting only the last item of each token id.
RECURSIVE AddPassLastWins(_, _, _, _)
AddPassLastWins(st, to, toks, i) ==
    IF i > Len(toks) THEN Ok(st)
    ELSE LET key == <<to, toks[i].token_id>>
             cur == IF st.balances[key] = NoBalance THEN 0 ELSE st.balances[key]
             r == checked_add(cur, toks[i].amount)
         IN IF \E j \in (i + 1)..Len(toks) : toks[j].token_id = toks[i].token_id
               THEN AddPassLastWins(st, to, toks, i + 1)
            ELSE IF r.err # "Ok" THEN Err(r.err, st)
            ELSE AddPassLastWins([st EXCEPT !.balances[key] = r.v], to, toks, i + 1)

\* Second loop of update_transfer_state: add every item to `to'.
RECURSIVE AddPass(_, _, _, _)
AddPass(st, to, toks, i) ==
    IF i > Len(toks) THEN Ok(st)
    ELSE LET key == <<to, toks[i].token_id>>
             cur == IF st.balances[key] = NoBalance THEN 0 ELSE st.balances[key]
             r == checked_add(cur, toks[i].amount)
         IN IF r.err # "Ok" THEN Err(r.err, st)
            ELSE AddPass([st EXCEPT !.balances[key] = r.v], to, toks, i + 1)

\* The burn branch decrementing the supply of the first item only.
DecrementPassFirstOnly(st, toks, i) ==
    IF Len(toks) = 0 THEN Ok(st)
    ELSE decrement_tokens(st, toks[1].token_id, toks[1].amount)

\* Burn branch: decrement_tokens for every item.
RECURSIVE DecrementPass(_, _, _)
DecrementPass(st, toks, i) ==
    IF i > Len(toks) THEN Ok(st)
    ELSE LET r == decrement_tokens(st, toks[i].token_id, toks[i].amount)
         IN IF r.err # "Ok" THEN r ELSE DecrementPass(r.st, toks, i + 1)

\* Mint branch: increment_tokens for every item.
RECURSIVE IncrementPass(_, _, _)
IncrementPass(st, toks, i) ==
    IF i > Len(toks) THEN Ok(st)
    ELSE LET r == increment_tokens(st, toks[i].token_id, toks[i].amount)
         IN IF r.err # "Ok" THEN r ELSE IncrementPass(r.st, toks, i + 1)

\* update_transfer_state taking every call with a `from' for a burn.
update_transfer_state_from_burns(st, from, to, toks) ==
    LET s1 == IF from # NoAddr THEN SubtractPass(st, from, toks, 1) ELSE Ok(st)
    IN IF s1.err # "Ok" THEN [err |-> s1.err, st |-> s1.st, event |-> NoEvent]
       ELSE
       LET s2 == IF to # NoAddr THEN AddPass(s1.st, to, toks, 1) ELSE s1
       IN IF s2.err # "Ok" THEN [err |-> s2.err, st |-> s2.st, event |-> NoEvent]
          ELSE IF from # NoAddr
                  THEN LET s3 == DecrementPass(s2.st, toks, 1)
                       IN [err |-> s3.err, st |-> s3.st,
                           event |-> IF s3.err = "Ok" THEN Event("burn", from, to, toks)
                                     ELSE NoEvent]
          ELSE LET s3 == IncrementPass(s2.st, toks, 1)
               IN [err |-> s3.err, st |-> s3.st,
                   event |-> IF s3.err = "Ok" THEN Event("mint", NoAddr, to, toks)
                             ELSE NoEvent]

\* from = NoAddr: mint; to = NoAddr: burn; both present: transfer.
update_transfer_state(st, from, to, toks) ==
    LET s1 == IF from # NoAddr THEN SubtractPass(st, from, toks, 1) ELSE Ok(st)
    IN IF s1.err # "Ok" THEN [err |-> s1.err, st |-> s1.st, event |-> NoEvent]
       ELSE
       LET s2 == IF to # NoAddr THEN AddPass(s1.st, to, toks, 1) ELSE s1
       IN IF s2.err # "Ok" THEN [err |-> s2.err, st |-> s2.st, event |-> NoEvent]
          ELSE IF from # NoAddr /\ to # NoAddr
                  THEN [err |-> "Ok", st |-> s2.st, event |-> Event("transfer", from, to, toks)]
          ELSE IF from # NoAddr
                  THEN LET s3 == DecrementPass(s2.st, toks, 1)
                       IN [err |-> s3.err, st |-> s3.st,
                           event |-> IF s3.err = "Ok" THEN Event("burn", from, NoAddr, toks)
                                     ELSE NoEvent]
          ELSE IF to # NoAddr
                  THEN LET s3 == IncrementPass(s2.st, toks, 1)
                       IN [err |-> s3.err, st |-> s3.st,
                           event |-> IF s3.err = "Ok" THEN Event("mint", NoAddr, to, toks)
                                     ELSE NoEvent]
          ELSE [err |-> "Panic", st |-> s2.st, event |-> NoEvent]

\* -------------------------------------------------- authorization checker
\* The approval test without the expiry check.
is_authorized_any_approval(st, h, sender, owner) ==
    \/ owner = sender
    \/ st.approves[<<owner, sender>>] # NoExpiration

\* The approval test reading the approval the caller gave to the owner.
is_authorized_reversed(st, h, sender, owner) ==
    \/ owner = sender
    \/ /\ st.approves[<<sender, owner>>] # NoExpiration
       /\ ~is_expired(st.approves[<<sender, owner>>], h)

\* The approval test of verify_approval: owner, or unexpired operator.
is_authorized(st, h, sender, owner) ==
    \/ owner = sender
    \/ /\ st.approves[<<owner, sender>>] # NoExpiration
       /\ ~is_expired(st.approves[<<owner, sender>>], h)

\* verify_approval without the cap on the owner's balance.
verify_approval_uncapped(st, h, sender, owner, token_id, amount) ==
    LET owner_balance == st.balances[<<owner, token_id>>]
    IN IF owner_balance = NoBalance
          THEN [err |-> "NotFound", item |-> TokenAmount(token_id, 0)]
       ELSE IF is_authorized(st, h, sender, owner)
          THEN [err |-> "Ok", item |-> TokenAmount(token_id, amount)]
       ELSE [err |-> "Unauthorized", item |-> TokenAmount(token_id, 0)]

\* verify_approval testing the caller before it loads the balance.
verify_approval_caller_first(st, h, sender, owner, token_id, amount) ==
    LET owner_balance == st.balances[<<owner, token_id>>]
    IN IF ~is_authorized(st, h, sender, owner)
          THEN [err |-> "Unauthorized", item |-> TokenAmount(token_id, 0)]
       ELSE IF owner_balance = NoBalance
          THEN [err |-> "NotFound", item |-> TokenAmount(token_id, 0)]
       ELSE [err |-> "Ok", item |-> TokenAmount(token_id, Min(owner_balance, amount))]

\* Returns the capped token amount, or the error.
verify_approval(st, h, sender, owner, token_id, amount) ==
    LET owner_balance == st.balances[<<owner, token_id>>]
    IN IF owner_balance = NoBalance
          THEN [err |-> "NotFound", item |-> TokenAmount(token_id, 0)]
       ELSE IF is_authorized(st, h, sender, owner)
          THEN [err |-> "Ok", item |-> TokenAmount(token_id, Min(owner_balance, amount))]
       ELSE [err |-> "Unauthorized", item |-> TokenAmount(token_id, 0)]

\* map(verify_approval).collect(): the first error, or all capped amounts.
RECURSIVE verify_approvals_from(_, _, _, _, _, _, _)
verify_approvals_from(st, h, sender, owner, toks, i, acc) ==
    IF i > Len(toks) THEN [err |-> "Ok", batch |-> acc]
    ELSE LET r == verify_approval(st, h, sender, owner, toks[i].token_id, toks[i].amount)
         IN IF r.err # "Ok" THEN [err |-> r.err, batch |-> <<>>]
            ELSE verify_approvals_from(st, h, sender, owner, toks, i + 1, Append(acc, r.item))

verify_approvals(st, h, sender, owner, toks) ==
    verify_approvals_from(st, h, sender, owner, toks, 1, <<>>)

\* ----------------------------------------------------- execution handlers
NoMessages == <<>>
Rsp(err, st, event, messages) ==
    [err |-> err, st |-> st, event |-> event, messages |-> messages]
Fail(err, st) == Rsp(err, st, NoEvent, NoMessages)

\* mint without the test of the caller against the stored minter.
mint_any_sender(st, sender, msg) ==
    IF ~addr_validate(msg.to) THEN Fail("InvalidAddress", st)
    ELSE
    LET r == update_transfer_state(st, NoAddr, msg.to,
                                   <<TokenAmount(msg.token_id, msg.amount)>>)
    IN IF r.err # "Ok" THEN Fail(r.err, r.st)
       ELSE IF r.st.tokens[msg.token_id] = NoToken
          THEN LET saved == [r.st EXCEPT !.tokens[msg.token_id] = msg.token_uri]
                   inc == increment_tokens(saved, msg.token_id, msg.amount)
               IN IF inc.err # "Ok" THEN Fail(inc.err, inc.st)
                  ELSE Rsp("Ok", inc.st, r.event, NoMessages)
       ELSE Rsp("Ok", r.st, r.event, NoMessages)

\* mint saving the token info of the message on every mint.
mint_overwrites(st, sender, msg) ==
    IF ~addr_validate(msg.to) THEN Fail("InvalidAddress", st)
    ELSE IF sender # st.minter THEN Fail("Unauthorized", st)
    ELSE
    LET r == update_transfer_state(st, NoAddr, msg.to,
                                   <<TokenAmount(msg.token_id, msg.amount)>>)
    IN IF r.err # "Ok" THEN Fail(r.err, r.st)
       ELSE LET saved == [r.st EXCEPT !.tokens[msg.token_id] = msg.token_uri]
            IN IF r.st.tokens[msg.token_id] = NoToken
                  THEN LET inc == increment_tokens(saved, msg.token_id, msg.amount)
                       IN IF inc.err # "Ok" THEN Fail(inc.err, inc.st)
                          ELSE Rsp("Ok", inc.st, r.event, NoMessages)
               ELSE Rsp("Ok", saved, r.event, NoMessages)

\* mint handing the minter role to the recipient.
mint_rotates_minter(st, sender, msg) ==
    IF ~addr_validate(msg.to) THEN Fail("InvalidAddress", st)
    ELSE IF sender # st.minter THEN Fail("Unauthorized", st)
    ELSE
    LET r == update_transfer_state(st, NoAddr, msg.to,
                                   <<TokenAmount(msg.token_id, msg.amount)>>)
    IN IF r.err # "Ok" THEN Fail(r.err, r.st)
       ELSE IF r.st.tokens[msg.token_id] = NoToken
          THEN LET saved == [r.st EXCEPT !.tokens[msg.token_id] = msg.token_uri,
                                         !.minter = msg.to]
                   inc == increment_tokens(saved, msg.token_id, msg.amount)
               IN IF inc.err # "Ok" THEN Fail(inc.err, inc.st)
                  ELSE Rsp("Ok", inc.st, r.event, NoMessages)
       ELSE Rsp("Ok", [r.st EXCEPT !.minter = msg.to], r.event, NoMessages)

\* msg: [to, token_id, amount, token_uri]
mint(st, sender, msg) ==
    IF ~addr_validate(msg.to) THEN Fail("InvalidAddress", st)
    ELSE IF sender # st.minter THEN Fail("Unauthorized", st)
    ELSE
    LET r == update_transfer_state(st, NoAddr, msg.to,
                                   <<TokenAmount(msg.token_id, msg.amount)>>)
    IN IF r.err # "Ok" THEN Fail(r.err, r.st)
       ELSE IF r.st.tokens[msg.token_id] = NoToken
          THEN LET saved == [r.st EXCEPT !.tokens[msg.token_id] = msg.token_uri]
                   inc == increment_tokens(saved, msg.token_id, msg.amount)
               IN IF inc.err # "Ok" THEN Fail(inc.err, inc.st)
                  ELSE Rsp("Ok", inc.st, r.event, NoMessages)
       ELSE Rsp("Ok", r.st, r.event, NoMessages)

\* Cw1155ReceiveMsg dispatched to the recipient when a payload is given.
ReceiveMsg(operator, from, to, token_id, amount) ==
    [kind |-> "receive", contract |-> to, operator |-> operator, from |-> from,
     batch |-> <<TokenAmount(token_id, amount)>>]

\* Cw1155BatchReceiveMsg dispatched to the recipient when a payload is given.
BatchReceiveMsg(operator, from, to, batch) ==
    [kind |-> "batch_receive", contract |-> to, operator |-> operator, from |-> from,
     batch |-> batch]

\* send_from validating the recipient only after the source was debited.
send_from_validating_late(st, h, sender, from, to, token_id, amount, payload) ==
    IF ~addr_validate(from) THEN Fail("InvalidAddress", st)
    ELSE
    LET balance_update == verify_approval(st, h, sender, from, token_id, amount)
    IN IF balance_update.err # "Ok" THEN Fail(balance_update.err, st)
       ELSE
       LET s1 == SubtractPass(st, from, <<balance_update.item>>, 1)
       IN IF s1.err # "Ok" THEN Fail(s1.err, s1.st)
          ELSE IF ~addr_validate(to) THEN Fail("InvalidAddress", s1.st)
          ELSE
          LET r == update_transfer_state(st, from, to, <<balance_update.item>>)
          IN IF r.err # "Ok" THEN Fail(r.err, r.st)
             ELSE Rsp("Ok", r.st, r.event,
                      IF payload
                         THEN <<ReceiveMsg(sender, from, to, token_id, amount)>>
                         ELSE NoMessages)

\* send_from reporting the requested amount in its event.
send_from_event_requested(st, h, sender, from, to, token_id, amount, payload) ==
    IF ~addr_validate(from) \/ ~addr_validate(to) THEN Fail("InvalidAddress", st)
    ELSE
    LET balance_update == verify_approval(st, h, sender, from, token_id, amount)
    IN IF balance_update.err # "Ok" THEN Fail(balance_update.err, st)
       ELSE
       LET r == update_transfer_state(st, from, to, <<balance_update.item>>)
       IN IF r.err # "Ok" THEN Fail(r.err, r.st)
          ELSE Rsp("Ok", r.st, Event("transfer", from, to, <<TokenAmount(token_id, amount)>>),
                   IF payload
                      THEN <<ReceiveMsg(sender, from, to, token_id, amount)>>
                      ELSE NoMessages)

send_from(st, h, sender, from, to, token_id, amount, payload) ==
    IF ~addr_validate(from) \/ ~addr_validate(to) THEN Fail("InvalidAddress", st)
    ELSE
    LET balance_update == verify_approval(st, h, sender, from, token_id, amount)
    IN IF balance_update.err # "Ok" THEN Fail(balance_update.err, st)
       ELSE
       LET r == update_transfer_state(st, from, to, <<balance_update.item>>)
       IN IF r.err # "Ok" THEN Fail(r.err, r.st)
          ELSE Rsp("Ok", r.st, r.event,
                   IF payload
                      THEN <<ReceiveMsg(sender, from, to, token_id, amount)>>
                      ELSE NoMessages)

\* batch_send_from verifying and transferring one item at a time.
RECURSIVE send_items(_, _, _, _, _, _, _)
send_items(st, h, sender, from, to, batch, i) ==
    IF i > Len(batch) THEN Ok(st)
    ELSE LET v == verify_approval(st, h, sender, from, batch[i].token_id, batch[i].amount)
         IN IF v.err # "Ok" THEN Err(v.err, st)
            ELSE LET r == update_transfer_state(st, from, to, <<v.item>>)
                 IN IF r.err # "Ok" THEN Err(r.err, r.st)
                    ELSE send_items(r.st, h, sender, from, to, batch, i + 1)

batch_send_from_itemwise(st, h, sender, from, to, batch, payload) ==
    IF ~addr_validate(from) \/ ~addr_validate(to) THEN Fail("InvalidAddress", st)
    ELSE LET r == send_items(st, h, sender, from, to, batch, 1)
         IN IF r.err # "Ok" THEN Fail(r.err, r.st)
            ELSE Rsp("Ok", r.st, Event("transfer", from, to, batch), NoMessages)

batch_send_from(st, h, sender, from, to, batch, payload) ==
    IF ~addr_validate(from) \/ ~addr_validate(to) THEN Fail("InvalidAddress", st)
    ELSE
    LET v == verify_approvals(st, h, sender, from, batch)
    IN IF v.err # "Ok" THEN Fail(v.err, st)
       ELSE
       LET r == update_transfer_state(st, from, to, v.batch)
       IN IF r.err # "Ok" THEN Fail(r.err, r.st)
          ELSE Rsp("Ok", r.st, r.event,
                   IF payload
                      THEN <<BatchReceiveMsg(sender, from, to, v.batch)>>
                      ELSE NoMessages)

\* burn naming no source when the capped amount is 0.
burn_without_from(st, h, sender, token_id, amount) ==
    LET balance_update == verify_approval(st, h, sender, sender, token_id, amount)
    IN IF balance_update.err # "Ok" THEN Fail(balance_update.err, st)
       ELSE
       LET r == update_transfer_state(
                    st, IF balance_update.item.amount = 0 THEN NoAddr ELSE sender,
                    NoAddr, <<balance_update.item>>)
       IN IF r.err # "Ok" THEN Fail(r.err, r.st)
          ELSE Rsp("Ok", r.st, r.event, NoMessages)

\* burn taking the tokens from an owner who approved the caller, when there
\* is one, as send_from would.
burn_from_grantor(st, h, sender, token_id, amount) ==
    LET grantors == {o \in Addrs \ {sender} : is_authorized(st, h, sender, o)}
        from == IF grantors = {} THEN sender ELSE CHOOSE o \in grantors : TRUE
        balance_update == verify_approval(st, h, sender, from, token_id, amount)
    IN IF balance_update.err # "Ok" THEN Fail(balance_update.err, st)
       ELSE
       LET r == update_transfer_state(st, from, NoAddr, <<balance_update.item>>)
       IN IF r.err # "Ok" THEN Fail(r.err, r.st)
          ELSE Rsp("Ok", r.st, r.event, NoMessages)

burn(st, h, sender, token_id, amount) ==
    LET balance_update == verify_approval(st, h, sender, sender, token_id, amount)
    IN IF balance_update.err # "Ok" THEN Fail(balance_update.err, st)
       ELSE
       LET r == update_transfer_state(st, sender, NoAddr, <<balance_update.item>>)
       IN IF r.err # "Ok" THEN Fail(r.err, r.st)
          ELSE Rsp("Ok", r.st, r.event, NoMessages)

batch_burn(st, h, sender, batch) ==
    LET v == verify_approvals(st, h, sender, sender, batch)
    IN IF v.err # "Ok" THEN Fail(v.err, st)
       ELSE
       LET r == update_transfer_state(st, sender, NoAddr, v.batch)
       IN IF r.err # "Ok" THEN Fail(r.err, r.st)
          ELSE Rsp("Ok", r.st, r.event, NoMessages)

\* approve_all keeping the approval the pair already has.
approve_all_keeps_stored(st, h, sender, operator, expires) ==
    LET ex == unwrap_or_default(expires)
    IN IF is_expired(ex, h) THEN Fail("Expired", st)
       ELSE IF ~addr_validate(operator) THEN Fail("InvalidAddress", st)
       ELSE Rsp("Ok",
                IF st.approves[<<sender, operator>>] = NoExpiration
                   THEN [st EXCEPT !.approves[<<sender, operator>>] = ex]
                   ELSE st,
                Event("approve_all", sender, operator, <<>>), NoMessages)

\* approve_all storing the expiration without testing it against the block.
approve_all_unchecked(st, h, sender, operator, expires) ==
    LET ex == unwrap_or_default(expires)
    IN IF ~addr_validate(operator) THEN Fail("InvalidAddress", st)
       ELSE Rsp("Ok", [st EXCEPT !.approves[<<sender, operator>>] = ex],
                Event("approve_all", sender, operator, <<>>), NoMessages)

approve_all(st, h, sender, operator, expires) ==
    LET ex == unwrap_or_default(expires)
    IN IF is_expired(ex, h) THEN Fail("Expired", st)
       ELSE IF ~addr_validate(operator) THEN Fail("InvalidAddress", st)
       ELSE Rsp("Ok", [st EXCEPT !.approves[<<sender, operator>>] = ex],
                Event("approve_all", sender, operator, <<>>), NoMessages)

\* revoke_all refusing to remove an approval that is not stored.
revoke_all_stored_only(st, sender, operator) ==
    IF ~addr_validate(operator) THEN Fail("InvalidAddress", st)
    ELSE IF st.approves[<<sender, operator>>] = NoExpiration THEN Fail("NotFound", st)
    ELSE Rsp("Ok", [st EXCEPT !.approves[<<sender, operator>>] = NoExpiration],
             Event("revoke_all", sender, operator, <<>>), NoMessages)

revoke_all(st, sender, operator) ==
    IF ~addr_validate(operator) THEN Fail("InvalidAddress", st)
    ELSE Rsp("Ok", [st EXCEPT !.approves[<<sender, operator>>] = NoExpiration],
             Event("revoke_all", sender, operator, <<>>), NoMessages)

\* ------------------------------------------- cw721-fixed-price: the sale
\* (contracts/cw721-fixed-price/src/contract.rs).  `sale' is the storage of
\* the sale contract, `minted' the Mint messages it has dispatched.
CONTRACT_NAME == "crates.io:cw721-fixed-price"
INSTANTIATE_TOKEN_REPLY_ID == 1
\* A reply id other than the one of the instantiate sub-message.
OtherReplyId == 10

Cw20Addrs == {"cw20", "cw20x"}
NftAddrs == {"nft1", "nft2"}
Buyers == {"a1", "a2"}
SaleOwners == {"owner"}
Extensions == {"none", "e1"}
\* cw721_address: None
NoCw721 == "unlinked"

\* CONFIG before instantiate has saved it.
NoConfig ==
    [saved |-> FALSE, cw721_address |-> NoCw721, cw20_address |-> "", unit_price |-> 0,
     max_tokens |-> 0, owner |-> "", name |-> "", symbol |-> "", token_uri |-> "",
     extension |-> "none", unused_token_id |-> 0]

\* The storage of a sale contract that is not instantiated.
NoSale == [contract_version |-> "", config |-> NoConfig]

Digits == <<"0", "1", "2", "3", "4", "5", "6", "7", "8", "9">>

\* u32::to_string: the decimal digits, most significant first.
RECURSIVE to_string(_)
to_string(n) ==
    IF n < 10 THEN <<Digits[n + 1]>>
    ELSE to_string(n \div 10) \o <<Digits[(n % 10) + 1]>>

\* config.extension.clone().map(|e| e.into())
ExtensionMsg(e) == IF e = "none" THEN [some |-> FALSE, of |-> "none"] ELSE [some |-> TRUE, of |-> e]

SaleRsp(err, st, messages) == [err |-> err, st |-> st, messages |-> messages]

\* The sub-message that instantiates the cw721 contract.
InstantiateSubMsg(msg) ==
    [kind |-> "instantiate", id |-> INSTANTIATE_TOKEN_REPLY_ID, reply_on |-> "Success",
     name |-> msg.name, symbol |-> msg.symbol]

\* Cw721ExecuteMsg::Mint addressed to the linked cw721 contract.
MintMsg(cw721, token_id, owner, token_uri, extension) ==
    [kind |-> "mint", contract |-> cw721, token_id |-> token_id, owner |-> owner,
     token_uri |-> token_uri, extension |-> extension]

\* instantiate rejecting max_tokens = 0 before unit_price = 0.
instantiate_max_tokens_first(st, sender, msg) ==
    LET versioned == [st EXCEPT !.contract_version = CONTRACT_NAME]
    IN IF msg.max_tokens = 0 THEN SaleRsp("InvalidMaxTokens", versioned, <<>>)
       ELSE IF msg.unit_price = 0 THEN SaleRsp("InvalidUnitPrice", versioned, <<>>)
       ELSE SaleRsp("Ok",
                    [versioned EXCEPT !.config =
                        [saved |-> TRUE, cw721_address |-> NoCw721,
                         cw20_address |-> msg.cw20_address, unit_price |-> msg.unit_price,
                         max_tokens |-> msg.max_tokens, owner |-> sender,
                         name |-> msg.name, symbol |-> msg.symbol,
                         token_uri |-> msg.token_uri, extension |-> msg.extension,
                         unused_token_id |-> 0]],
                    <<InstantiateSubMsg(msg)>>)

instantiate(st, sender, msg) ==
    LET versioned == [st EXCEPT !.contract_version = CONTRACT_NAME]
    IN IF msg.unit_price = 0 THEN SaleRsp("InvalidUnitPrice", versioned, <<>>)
       ELSE IF msg.max_tokens = 0 THEN SaleRsp("InvalidMaxTokens", versioned, <<>>)
       ELSE SaleRsp("Ok",
                    [versioned EXCEPT !.config =
                        [saved |-> TRUE, cw721_address |-> NoCw721,
                         cw20_address |-> msg.cw20_address, unit_price |-> msg.unit_price,
                         max_tokens |-> msg.max_tokens, owner |-> sender,
                         name |-> msg.name, symbol |-> msg.symbol,
                         token_uri |-> msg.token_uri, extension |-> msg.extension,
                         unused_token_id |-> 0]],
                    <<InstantiateSubMsg(msg)>>)

\* reply linking the contract of every reply with the instantiate reply id.
reply_relinks(st, msg) ==
    LET config == st.config
    IN IF ~config.saved THEN SaleRsp("NotFound", st, <<>>)
       ELSE IF msg.id # INSTANTIATE_TOKEN_REPLY_ID THEN SaleRsp("InvalidTokenReplyId", st, <<>>)
       ELSE IF ~msg.ok THEN SaleRsp("Panic", st, <<>>)
       ELSE SaleRsp("Ok", [st EXCEPT !.config.cw721_address = msg.contract_address], <<>>)

\* reply linking the contract whatever the id of the reply is.
reply_any_id(st, msg) ==
    LET config == st.config
    IN IF ~config.saved THEN SaleRsp("NotFound", st, <<>>)
       ELSE IF config.cw721_address # NoCw721 THEN SaleRsp("Cw721AlreadyLinked", st, <<>>)
       ELSE IF ~msg.ok THEN SaleRsp("Panic", st, <<>>)
       ELSE SaleRsp("Ok", [st EXCEPT !.config.cw721_address = msg.contract_address], <<>>)

\* msg: [id, ok, contract_address]; ok is SubMsgResult::Ok with the
\* instantiate response, whose absence makes the unwrap calls panic.
reply(st, msg) ==
    LET config == st.config
    IN IF ~config.saved THEN SaleRsp("NotFound", st, <<>>)
       ELSE IF config.cw721_address # NoCw721 THEN SaleRsp("Cw721AlreadyLinked", st, <<>>)
       ELSE IF msg.id # INSTANTIATE_TOKEN_REPLY_ID THEN SaleRsp("InvalidTokenReplyId", st, <<>>)
       ELSE IF ~msg.ok THEN SaleRsp("Panic", st, <<>>)
       ELSE SaleRsp("Ok", [st EXCEPT !.config.cw721_address = msg.contract_address], <<>>)

\* execute_receive refusing only a payment below the price.
execute_receive_accepts_more(st, info_sender, sender, amount) ==
    LET config == st.config
    IN IF ~config.saved THEN SaleRsp("NotFound", st, <<>>)
       ELSE IF config.cw20_address # info_sender
          THEN SaleRsp("UnauthorizedTokenContract", st, <<>>)
       ELSE IF config.cw721_address = NoCw721 THEN SaleRsp("Uninitialized", st, <<>>)
       ELSE IF config.unused_token_id >= config.max_tokens THEN SaleRsp("SoldOut", st, <<>>)
       ELSE IF amount < config.unit_price THEN SaleRsp("WrongPaymentAmount", st, <<>>)
       ELSE LET mint_msg == MintMsg(config.cw721_address,
                                    to_string(config.unused_token_id), sender,
                                    config.token_uri, ExtensionMsg(config.extension))
            IN SaleRsp("Ok",
                       [st EXCEPT !.config.unused_token_id = config.unused_token_id + 1],
                       <<mint_msg>>)

\* execute_receive issuing the incremented counter as the token id.
execute_receive_ids_from_one(st, info_sender, sender, amount) ==
    LET config == st.config
    IN IF ~config.saved THEN SaleRsp("NotFound", st, <<>>)
       ELSE IF config.cw20_address # info_sender
          THEN SaleRsp("UnauthorizedTokenContract", st, <<>>)
       ELSE IF config.cw721_address = NoCw721 THEN SaleRsp("Uninitialized", st, <<>>)
       ELSE IF config.unused_token_id >= config.max_tokens THEN SaleRsp("SoldOut", st, <<>>)
       ELSE IF amount # config.unit_price THEN SaleRsp("WrongPaymentAmount", st, <<>>)
       ELSE LET mint_msg == MintMsg(config.cw721_address,
                                    to_string(config.unused_token_id + 1), sender,
                                    config.token_uri, ExtensionMsg(config.extension))
            IN SaleRsp("Ok",
                       [st EXCEPT !.config.unused_token_id = config.unused_token_id + 1],
                       <<mint_msg>>)

\* execute_receive selling while unused_token_id <= max_tokens.
execute_receive_one_more(st, info_sender, sender, amount) ==
    LET config == st.config
    IN IF ~config.saved THEN SaleRsp("NotFound", st, <<>>)
       ELSE IF config.cw20_address # info_sender
          THEN SaleRsp("UnauthorizedTokenContract", st, <<>>)
       ELSE IF config.cw721_address = NoCw721 THEN SaleRsp("Uninitialized", st, <<>>)
       ELSE IF config.unused_token_id > config.max_tokens THEN SaleRsp("SoldOut", st, <<>>)
       ELSE IF amount # config.unit_price THEN SaleRsp("WrongPaymentAmount", st, <<>>)
       ELSE LET mint_msg == MintMsg(config.cw721_address,
                                    to_string(config.unused_token_id), sender,
                                    config.token_uri, ExtensionMsg(config.extension))
            IN SaleRsp("Ok",
                       [st EXCEPT !.config.unused_token_id = config.unused_token_id + 1],
                       <<mint_msg>>)

\* execute_receive taking the next token id before it looks at the payment.
execute_receive_counting_first(st, info_sender, sender, amount) ==
    LET config == st.config
        counted == [st EXCEPT !.config.unused_token_id = config.unused_token_id + 1]
    IN IF ~config.saved THEN SaleRsp("NotFound", st, <<>>)
       ELSE IF config.cw20_address # info_sender
          THEN SaleRsp("UnauthorizedTokenContract", st, <<>>)
       ELSE IF config.cw721_address = NoCw721 THEN SaleRsp("Uninitialized", st, <<>>)
       ELSE IF config.unused_token_id >= config.max_tokens THEN SaleRsp("SoldOut", st, <<>>)
       ELSE IF amount # config.unit_price THEN SaleRsp("WrongPaymentAmount", counted, <<>>)
       ELSE LET mint_msg == MintMsg(config.cw721_address,
                                    to_string(config.unused_token_id), sender,
                                    config.token_uri, ExtensionMsg(config.extension))
            IN SaleRsp("Ok", counted, <<mint_msg>>)

execute_receive(st, info_sender, sender, amount) ==
    LET config == st.config
    IN IF ~config.saved THEN SaleRsp("NotFound", st, <<>>)
       ELSE IF config.cw20_address # info_sender
          THEN SaleRsp("UnauthorizedTokenContract", st, <<>>)
       ELSE IF config.cw721_address = NoCw721 THEN SaleRsp("Uninitialized", st, <<>>)
       ELSE IF config.unused_token_id >= config.max_tokens THEN SaleRsp("SoldOut", st, <<>>)
       ELSE IF amount # config.unit_price THEN SaleRsp("WrongPaymentAmount", st, <<>>)
       ELSE LET mint_msg == MintMsg(config.cw721_address,
                                    to_string(config.unused_token_id), sender,
                                    config.token_uri, ExtensionMsg(config.extension))
            IN SaleRsp("Ok",
                       [st EXCEPT !.config.unused_token_id = config.unused_token_id + 1],
                       <<mint_msg>>)

\* ------------------------------------------------ cw721: the NFT collection
\* The collection of test_operator and test_update_nft_metadata: one owner
\* per token, operators approved per owner, metadata per token.
NftCreator == "a1"
NftMinter == "a2"

\* token_uri: None, a URL that parses, and one that does not.
NoUri == "nouri"
InvalidUri == "relative"
MintUris == {"u1"}
UpdateUris == {NoUri, "u2", InvalidUri}

\* extension: None and the metadata values.
NoExtension == "none"
MintExtensions == {"e1"}
UpdateExtensions == {NoExtension, "e2"}

\* The collection after its instantiation: creator and minter saved, no token.
NftInit ==
    [owner |-> [t \in TokenIds |-> NoAddr],
     operators |-> [k \in Addrs \X Addrs |-> NoExpiration],
     token_uri |-> [t \in TokenIds |-> NoUri],
     extension |-> [t \in TokenIds |-> NoExtension],
     token_count |-> 0,
     creator |-> NftCreator,
     minter |-> NftMinter]

\* Mint: minter only, a token id is claimed once, the count grows by one.
nft_mint(st, sender, token_id, owner, token_uri, extension) ==
    IF sender # st.minter THEN Err("NotOwner", st)
    ELSE IF ~addr_validate(owner) THEN Err("InvalidAddress", st)
    ELSE IF st.owner[token_id] # NoAddr THEN Err("Claimed", st)
    ELSE Ok([st EXCEPT !.owner[token_id] = owner,
                       !.token_uri[token_id] = token_uri,
                       !.extension[token_id] = extension,
                       !.token_count = @ + 1])

\* Looking the approval up under the sender instead of under the owner.
check_can_send_by_grantee(st, h, sender, token_id) ==
    LET owner == st.owner[token_id]
    IN \/ sender = owner
       \/ /\ st.operators[<<sender, owner>>] # NoExpiration
          /\ ~is_expired(st.operators[<<sender, owner>>], h)

\* Whether sender may send the token: its owner, or an operator the owner
\* approved and whose approval has not expired.
check_can_send(st, h, sender, token_id) ==
    LET owner == st.owner[token_id]
    IN \/ sender = owner
       \/ /\ st.operators[<<owner, sender>>] # NoExpiration
          /\ ~is_expired(st.operators[<<owner, sender>>], h)

\* Dropping the previous owner's operator approvals with the transfer.
transfer_nft_clearing(st, h, sender, recipient, token_id) ==
    IF st.owner[token_id] = NoAddr THEN Err("NotFound", st)
    ELSE IF ~check_can_send(st, h, sender, token_id) THEN Err("NotOwner", st)
    ELSE IF ~addr_validate(recipient) THEN Err("InvalidAddress", st)
    ELSE Ok([st EXCEPT !.owner[token_id] = recipient,
                       !.operators = [k \in Addrs \X Addrs |->
                            IF k[1] = st.owner[token_id] THEN NoExpiration
                            ELSE st.operators[k]]])

\* TransferNft: the token changes owner; operator approvals are kept.
transfer_nft(st, h, sender, recipient, token_id) ==
    IF st.owner[token_id] = NoAddr THEN Err("NotFound", st)
    ELSE IF ~check_can_send(st, h, sender, token_id) THEN Err("NotOwner", st)
    ELSE IF ~addr_validate(recipient) THEN Err("InvalidAddress", st)
    ELSE Ok([st EXCEPT !.owner[token_id] = recipient])

\* ApproveAll: the sender makes operator an operator of all its tokens.
nft_approve_all(st, h, sender, operator, expires) ==
    LET expiration == unwrap_or_default(expires)
    IN IF is_expired(expiration, h) THEN Err("Expired", st)
       ELSE IF ~addr_validate(operator) THEN Err("InvalidAddress", st)
       ELSE Ok([st EXCEPT !.operators[<<sender, operator>>] = expiration])

\* Removing the approval the operator gave instead of the sender's.
nft_revoke_all_reversed(st, sender, operator) ==
    IF ~addr_validate(operator) THEN Err("InvalidAddress", st)
    ELSE Ok([st EXCEPT !.operators[<<operator, sender>>] = NoExpiration])

\* RevokeAll: the sender's approval of operator is removed.
nft_revoke_all(st, sender, operator) ==
    IF ~addr_validate(operator) THEN Err("InvalidAddress", st)
    ELSE Ok([st EXCEPT !.operators[<<sender, operator>>] = NoExpiration])

\* Letting the token's owner update too.
update_nft_info_by_owner(st, sender, token_id, token_uri, extension) ==
    IF sender # st.creator /\ sender # st.owner[token_id] THEN Err("NotCreator", st)
    ELSE IF st.owner[token_id] = NoAddr THEN Err("NotFound", st)
    ELSE IF token_uri = InvalidUri THEN Err("ParseError", st)
    ELSE Ok([st EXCEPT
                !.token_uri[token_id] = IF token_uri = NoUri THEN @ ELSE token_uri,
                !.extension[token_id] = IF extension = NoExtension THEN @ ELSE extension])

\* UpdateNftInfo: creator only; a None field keeps the stored value.
update_nft_info(st, sender, token_id, token_uri, extension) ==
    IF sender # st.creator THEN Err("NotCreator", st)
    ELSE IF st.owner[token_id] = NoAddr THEN Err("NotFound", st)
    ELSE IF token_uri = InvalidUri THEN Err("ParseError", st)
    ELSE Ok([st EXCEPT
                !.token_uri[token_id] = IF token_uri = NoUri THEN @ ELSE token_uri,
                !.extension[token_id] = IF extension = NoExtension THEN @ ELSE extension])

\* ---------------------------------------------------------------- actions
\* The storage after the message: the handler's writes are kept only when it
\* returned Ok; an Err result discards them.
\* Keeping the handler's writes whatever it returned.
CommittedAlways(st, r) == r.st

Committed(st, r) == IF r.err = "Ok" THEN r.st ELSE st

NumRecords(st) == Cardinality({k \in Addrs \X TokenIds : st.balances[k] # NoBalance})
NumApprovals(st) == Cardinality({k \in Addrs \X Addrs : st.approves[k] # NoExpiration})

\* execute(): run one handler on the current storage and commit its result.
Execute(r) ==
    LET st == Committed(Storage, r)
    IN /\ NumRecords(st) <= MaxRecords
       /\ NumApprovals(st) <= MaxApprovals
       /\ balances' = st.balances
       /\ approves' = st.approves
       /\ tokens' = st.tokens
       /\ token_count' = st.token_count
       /\ minter' = st.minter
       /\ height' = height
       /\ UNCHANGED <<sale, minted, nft>>

\* instantiate(): the minter is saved, every map is empty.
Init ==
    /\ balances = [k \in Addrs \X TokenIds |-> NoBalance]
    /\ approves = [k \in Addrs \X Addrs |-> NoExpiration]
    /\ tokens = [t \in TokenIds |-> NoToken]
    /\ token_count = [t \in TokenIds |-> 0]
    /\ minter = Minter
    /\ height = 0
    /\ sale = NoSale
    /\ minted = <<>>
    /\ nft = NftInit

\* Inputs of the messages.  The full contract (Spec) is explored with the
\* narrow sets, the ledger without approvals (SpecLedger) with the wide ones.
MintArgs(tids, amts) ==
    {[sender |-> sender, to |-> to, token_id |-> t, amount |-> a, token_uri |-> u] :
        sender \in Addrs, to \in AddrStrings, t \in tids, a \in amts, u \in Uris}

SendArgs(amts) ==
    {[sender |-> sender, from |-> from, to |-> to, token_id |-> t, amount |-> a,
      payload |-> payload] :
        sender \in Addrs, from \in AddrStrings, to \in AddrStrings,
        t \in TokenIds, a \in amts, payload \in BOOLEAN}

BatchSendArgs(batches) ==
    {[sender |-> sender, from |-> from, to |-> to, batch |-> batch, payload |-> payload] :
        sender \in Addrs, from \in Addrs, to \in Addrs,
        batch \in batches, payload \in BOOLEAN}

BurnArgs(amts) ==
    {[sender |-> sender, token_id |-> t, amount |-> a] :
        sender \in Addrs, t \in TokenIds, a \in amts}

BatchBurnArgs(batches) ==
    {[sender |-> sender, batch |-> batch] : sender \in Addrs, batch \in batches}

ApproveArgs ==
    {[sender |-> sender, operator |-> operator, expires |-> expires] :
        sender \in Addrs, operator \in AddrStrings, expires \in Expirations}

RevokeArgs ==
    {[sender |-> sender, operator |-> operator] :
        sender \in Addrs, operator \in AddrStrings}

\* Both address strings of a send validate.
ValidAddrs(m) == addr_validate(m.from) /\ addr_validate(m.to)

\* The handlers applied to a message record.
DoMint(st, m) == mint(st, m.sender, m)
DoSendFrom(st, h, m) ==
    send_from(st, h, m.sender, m.from, m.to, m.token_id, m.amount, m.payload)
DoBatchSendFrom(st, h, m) ==
    batch_send_from(st, h, m.sender, m.from, m.to, m.batch, m.payload)
DoBurn(st, h, m) == burn(st, h, m.sender, m.token_id, m.amount)
DoBatchBurn(st, h, m) == batch_burn(st, h, m.sender, m.batch)
DoApproveAll(st, h, m) == approve_all(st, h, m.sender, m.operator, m.expires)
DoRevokeAll(st, m) == revoke_all(st, m.sender, m.operator)

\* ---- the ledger without approvals: wide inputs
LedgerMintArgs == MintArgs(TokenIds, Amounts)
LedgerSendArgs == SendArgs(Amounts)
LedgerBatchSendArgs == BatchSendArgs(Batches)
LedgerBurnArgs == BurnArgs(Amounts)
LedgerBatchBurnArgs == BatchBurnArgs(Batches)

LedgerMint == \E m \in LedgerMintArgs : Execute(DoMint(Storage, m))
LedgerSendFrom == \E m \in LedgerSendArgs : Execute(DoSendFrom(Storage, height, m))
LedgerBatchSendFrom ==
    \E m \in LedgerBatchSendArgs : Execute(DoBatchSendFrom(Storage, height, m))
LedgerBurn == \E m \in LedgerBurnArgs : Execute(DoBurn(Storage, height, m))
LedgerBatchBurn ==
    \E m \in LedgerBatchBurnArgs : Execute(DoBatchBurn(Storage, height, m))

LedgerNext ==
    \/ LedgerMint
    \/ LedgerSendFrom
    \/ LedgerBatchSendFrom
    \/ LedgerBurn
    \/ LedgerBatchBurn

SpecLedger == Init /\ [][LedgerNext]_vars

\* ---- the token-info store: mints with different metadata, sends, burns
MetaUris == {"u1", "u2"}
MetaMintArgs ==
    {[sender |-> sender, to |-> to, token_id |-> t, amount |-> a, token_uri |-> u] :
        sender \in Addrs, to \in Addrs, t \in TokenIds, a \in 1..MaxAmount, u \in MetaUris}
MetaSendArgs == {m \in SendArgs(Amounts) : ValidAddrs(m) /\ ~m.payload}
MetaBurnArgs == BurnArgs(Amounts)

MetaMint == \E m \in MetaMintArgs : Execute(DoMint(Storage, m))
MetaSendFrom == \E m \in MetaSendArgs : Execute(DoSendFrom(Storage, height, m))
MetaBurn == \E m \in MetaBurnArgs : Execute(DoBurn(Storage, height, m))

MetaNext ==
    \/ MetaMint
    \/ MetaSendFrom
    \/ MetaBurn

SpecMeta == Init /\ [][MetaNext]_vars

\* ---- the full contract: narrow ledger inputs, approvals and blocks
\* Batches of single units.
UnitBatches == SeqsUpTo({TokenAmount(t, 1) : t \in TokenIds}, MaxBatch)
FullMintArgs == MintArgs(TokenIds, {1})
FullSendArgs == SendArgs(Amounts)
FullBatchSendArgs == BatchSendArgs(UnitBatches)
\* Batch sends with an address string that does not validate.
InvalidBatchSendArgs ==
    {m \in {[sender |-> sender, from |-> from, to |-> to, batch |-> batch,
             payload |-> FALSE] :
                sender \in Addrs, from \in AddrStrings, to \in AddrStrings,
                batch \in UnitBatches} :
        ~ValidAddrs(m)}
FullBurnArgs == BurnArgs(Amounts)
FullBatchBurnArgs == BatchBurnArgs(UnitBatches)

Mint == \E m \in FullMintArgs : Execute(DoMint(Storage, m))
SendFrom == \E m \in FullSendArgs : Execute(DoSendFrom(Storage, height, m))
BatchSendFrom ==
    \E m \in FullBatchSendArgs \cup InvalidBatchSendArgs :
        Execute(DoBatchSendFrom(Storage, height, m))
Burn == \E m \in FullBurnArgs : Execute(DoBurn(Storage, height, m))
BatchBurn == \E m \in FullBatchBurnArgs : Execute(DoBatchBurn(Storage, height, m))
ApproveAll == \E m \in ApproveArgs : Execute(DoApproveAll(Storage, height, m))
RevokeAll == \E m \in RevokeArgs : Execute(DoRevokeAll(Storage, m))

\* The chain produces the next block.
NextBlock ==
    /\ height < MaxHeight
    /\ height' = height + 1
    /\ UNCHANGED <<balances, approves, tokens, token_count, minter, sale, minted, nft>>

Next ==
    \/ Mint
    \/ SendFrom
    \/ BatchSendFrom
    \/ Burn
    \/ BatchBurn
    \/ ApproveAll
    \/ RevokeAll
    \/ NextBlock

Spec == Init /\ [][Next]_vars

TypeOK ==
    /\ \A k \in Addrs \X TokenIds : balances[k] \in {NoBalance} \cup (0..U128Max)
    /\ \A t \in TokenIds : token_count[t] \in 0..U128Max

\* ---- the fixed-price sale: instantiate, reply, Receive
InstantiateArgs ==
    {[sender |-> sender, cw20_address |-> cw20, unit_price |-> price, max_tokens |-> max,
      name |-> "SYNTH", symbol |-> "SYNTH", token_uri |-> uri, extension |-> ext] :
        sender \in SaleOwners, cw20 \in Cw20Addrs, price \in 0..MaxPrice,
        max \in 0..MaxTokens, uri \in Uris, ext \in Extensions}

ReplyArgs ==
    {[id |-> id, ok |-> ok, contract_address |-> a] :
        id \in {INSTANTIATE_TOKEN_REPLY_ID, OtherReplyId}, ok \in BOOLEAN, a \in NftAddrs}

ReceiveArgs ==
    {[info_sender |-> c, sender |-> b, amount |-> a] :
        c \in Cw20Addrs \cup SaleOwners, b \in Buyers, a \in 0..(MaxPrice + 1)}

DoInstantiate(st, m) == instantiate(st, m.sender, m)
DoReply(st, m) == reply(st, m)
DoReceive(st, m) == execute_receive(st, m.info_sender, m.sender, m.amount)

\* One entry point of the sale contract ran: its writes and its messages are
\* kept only when it returned Ok.
SaleExecute(r) ==
    /\ sale' = Committed(sale, r)
    /\ minted' = IF r.err = "Ok"
                    THEN minted \o SelectSeq(r.messages, LAMBDA x : x.kind = "mint")
                    ELSE minted
    /\ UNCHANGED <<balances, approves, tokens, token_count, minter, height, nft>>

\* The host instantiates the contract once.
Instantiate ==
    /\ ~sale.config.saved
    /\ \E m \in InstantiateArgs : SaleExecute(DoInstantiate(sale, m))

Reply ==
    /\ sale.config.saved
    /\ \E m \in ReplyArgs : SaleExecute(DoReply(sale, m))

Receive ==
    /\ sale.config.saved
    /\ \E m \in ReceiveArgs : SaleExecute(DoReceive(sale, m))

SaleNext ==
    \/ Instantiate
    \/ Reply
    \/ Receive

SpecSale == Init /\ [][SaleNext]_vars

\* ---- the NFT collection: mint, transfer, operators, metadata, blocks
NftMintArgs ==
    {[sender |-> s, token_id |-> t, owner |-> o, token_uri |-> u, extension |-> e] :
        s \in Addrs, t \in TokenIds, o \in Addrs, u \in MintUris, e \in MintExtensions}

NftTransferArgs ==
    {[sender |-> s, recipient |-> r, token_id |-> t] :
        s \in Addrs, r \in AddrStrings, t \in TokenIds}

NftApproveArgs ==
    {[sender |-> s, operator |-> o, expires |-> e] :
        s \in Addrs, o \in AddrStrings, e \in Expirations}

NftRevokeArgs == {[sender |-> s, operator |-> o] : s \in Addrs, o \in AddrStrings}

NftUpdateArgs ==
    {[sender |-> s, token_id |-> t, token_uri |-> u, extension |-> e] :
        s \in Addrs, t \in TokenIds, u \in UpdateUris, e \in UpdateExtensions}

DoNftMint(st, m) == nft_mint(st, m.sender, m.token_id, m.owner, m.token_uri, m.extension)
DoTransferNft(st, h, m) == transfer_nft(st, h, m.sender, m.recipient, m.token_id)
DoNftApproveAll(st, h, m) == nft_approve_all(st, h, m.sender, m.operator, m.expires)
DoNftRevokeAll(st, m) == nft_revoke_all(st, m.sender, m.operator)
DoUpdateNftInfo(st, m) ==
    update_nft_info(st, m.sender, m.token_id, m.token_uri, m.extension)

NumOperators(st) == Cardinality({k \in Addrs \X Addrs : st.operators[k] # NoExpiration})

\* One message of the collection ran: its writes are kept only when it
\* returned Ok.
NftExecute(r) ==
    LET st == Committed(nft, r)
    IN /\ NumOperators(st) <= MaxOperators
       /\ nft' = st
       /\ UNCHANGED <<balances, approves, tokens, token_count, minter, height,
                      sale, minted>>

NftMint == \E m \in NftMintArgs : NftExecute(DoNftMint(nft, m))
TransferNft == \E m \in NftTransferArgs : NftExecute(DoTransferNft(nft, height, m))
NftApproveAll == \E m \in NftApproveArgs : NftExecute(DoNftApproveAll(nft, height, m))
NftRevokeAll == \E m \in NftRevokeArgs : NftExecute(DoNftRevokeAll(nft, m))
UpdateNftInfo == \E m \in NftUpdateArgs : NftExecute(DoUpdateNftInfo(nft, m))

NftNext ==
    \/ NftMint
    \/ TransferNft
    \/ NftApproveAll
    \/ NftRevokeAll
    \/ UpdateNftInfo
    \/ NextBlock

SpecNft == Init /\ [][NftNext]_vars

\* ------------------------------------------------------------ observations
\* The quantity a balance query reports.
Bal(st, a, t) == IF st.balances[<<a, t>>] = NoBalance THEN 0 ELSE st.balances[<<a, t>>]

RECURSIVE SumOver(_, _, _)
SumOver(st, as, t) ==
    IF as = {} THEN 0
    ELSE LET a == CHOOSE x \in as : TRUE
         IN Bal(st, a, t) + SumOver(st, as \ {a}, t)

\* Sum over all owners of the stored balance of token t.
SumBalances(st, t) == SumOver(st, Addrs, t)

HasRecord(st, a, t) == st.balances[<<a, t>>] # NoBalance

\* ------------------------------------------------------------------ claims

\* C1: Conservation: in every state reachable by mint, send_from,
\* batch_send_from, burn and batch_burn, for every token id the supply
\* counter equals the sum over all owners of the stored balance.
C1_Conservation ==
    \A t \in TokenIds : token_count[t] = SumBalances(Storage, t)

\* C2: a successful mint of quantity q of token t to address a increases
\* balance(a,t) by exactly q and the supply counter of t by exactly q, on the
\* first mint of t and on later mints alike.
C2_MintEffect ==
    \A m \in LedgerMintArgs :
        LET r == DoMint(Storage, m)
        IN r.err = "Ok" =>
              /\ Bal(r.st, m.to, m.token_id) = Bal(Storage, m.to, m.token_id) + m.amount
              /\ r.st.token_count[m.token_id] = token_count[m.token_id] + m.amount

\* The caller is the owner, or holds an approval of the owner that is not
\* expired at the current block.
MayAct(caller, owner) ==
    \/ caller = owner
    \/ /\ approves[<<owner, caller>>] # NoExpiration
       /\ ~is_expired(approves[<<owner, caller>>], height)

\* C3: every send_from or batch_send_from whose caller is neither `from' nor
\* an operator with an unexpired approval of `from' fails with Unauthorized,
\* whether or not `from' holds a balance record, and changes nothing.
C3_UnauthorizedRejected ==
    /\ \A m \in FullSendArgs :
          (ValidAddrs(m) /\ ~MayAct(m.sender, m.from)) =>
              LET r == DoSendFrom(Storage, height, m)
              IN r.err = "Unauthorized" /\ Committed(Storage, r) = Storage
    /\ \A m \in FullBatchSendArgs :
          ~MayAct(m.sender, m.from) =>
              LET r == DoBatchSendFrom(Storage, height, m)
              IN r.err = "Unauthorized" /\ Committed(Storage, r) = Storage

\* The source holds a balance record of every token the batch names.
HasRecords(owner, batch) ==
    \A i \in 1..Len(batch) : HasRecord(Storage, owner, batch[i].token_id)

\* C4: every send_from, batch_send_from, burn or batch_burn by the owner, and
\* every send_from or batch_send_from by an operator with an unexpired
\* approval, succeeds for any token id, quantity and valid recipient.  Stated
\* here for the sources that hold a balance record of every token named.
C4_AuthorizedSucceeds ==
    /\ \A m \in FullSendArgs :
          (ValidAddrs(m) /\ MayAct(m.sender, m.from)
              /\ HasRecord(Storage, m.from, m.token_id)) =>
              DoSendFrom(Storage, height, m).err = "Ok"
    /\ \A m \in FullBatchSendArgs :
          (MayAct(m.sender, m.from) /\ HasRecords(m.from, m.batch)) =>
              DoBatchSendFrom(Storage, height, m).err = "Ok"
    /\ \A m \in FullBurnArgs :
          HasRecord(Storage, m.sender, m.token_id) => DoBurn(Storage, height, m).err = "Ok"
    /\ \A m \in FullBatchBurnArgs :
          HasRecords(m.sender, m.batch) => DoBatchBurn(Storage, height, m).err = "Ok"

\* An authorized send of more than the source holds.
OverSend(m) ==
    /\ ValidAddrs(m)
    /\ MayAct(m.sender, m.from)
    /\ HasRecord(Storage, m.from, m.token_id)
    /\ Bal(Storage, m.from, m.token_id) < m.amount

\* A burn of more than the caller holds.
OverBurn(m) ==
    /\ HasRecord(Storage, m.sender, m.token_id)
    /\ Bal(Storage, m.sender, m.token_id) < m.amount

\* C5 as stated: an authorized send_from or burn requesting q while the
\* source holds b < q succeeds, moves exactly b and leaves the source at 0.
C5_ClampLeavesZero ==
    /\ \A m \in FullSendArgs :
          OverSend(m) =>
              LET r == DoSendFrom(Storage, height, m)
                  b == Bal(Storage, m.from, m.token_id)
              IN /\ r.err = "Ok"
                 /\ r.event.tokens = <<TokenAmount(m.token_id, b)>>
                 /\ Bal(r.st, m.from, m.token_id) = 0
    /\ \A m \in FullBurnArgs :
          OverBurn(m) =>
              LET r == DoBurn(Storage, height, m)
                  b == Bal(Storage, m.sender, m.token_id)
              IN /\ r.err = "Ok"
                 /\ r.event.tokens = <<TokenAmount(m.token_id, b)>>
                 /\ Bal(r.st, m.sender, m.token_id) = 0

\* C5 (amended): an authorized send_from or burn requesting q while the
\* source holds b < q succeeds and moves (or burns) exactly b; the source is
\* left at 0 unless the recipient is the source itself, which is left at b;
\* the amount authorized is always min(q, b).
C5_Clamp ==
    /\ \A m \in FullSendArgs :
          OverSend(m) =>
              LET r == DoSendFrom(Storage, height, m)
                  b == Bal(Storage, m.from, m.token_id)
              IN /\ r.err = "Ok"
                 /\ r.event.tokens = <<TokenAmount(m.token_id, b)>>
                 /\ m.from # m.to =>
                       /\ Bal(r.st, m.from, m.token_id) = 0
                       /\ Bal(r.st, m.to, m.token_id) = Bal(Storage, m.to, m.token_id) + b
                 /\ m.from = m.to => Bal(r.st, m.from, m.token_id) = b
    /\ \A m \in FullBurnArgs :
          OverBurn(m) =>
              LET r == DoBurn(Storage, height, m)
                  b == Bal(Storage, m.sender, m.token_id)
              IN /\ r.err = "Ok"
                 /\ r.event.tokens = <<TokenAmount(m.token_id, b)>>
                 /\ Bal(r.st, m.sender, m.token_id) = 0
    /\ \A m \in FullSendArgs :
          addr_validate(m.from) =>
              LET v == verify_approval(Storage, height, m.sender, m.from, m.token_id, m.amount)
              IN v.err = "Ok" =>
                    v.item.amount = Min(m.amount, Bal(Storage, m.from, m.token_id))

\* C5 witness: a holder of one unit is asked for two units to another
\* address; one unit moves and the holder is left with 0.
C5_Witness ==
    \E m \in FullSendArgs :
        /\ OverSend(m)
        /\ m.from # m.to
        /\ Bal(Storage, m.from, m.token_id) = 1
        /\ LET r == DoSendFrom(Storage, height, m)
           IN /\ r.err = "Ok"
              /\ Bal(r.st, m.from, m.token_id) = 0
              /\ Bal(r.st, m.to, m.token_id) = Bal(Storage, m.to, m.token_id) + 1

\* A send by caller p from owner o of a token o has a record of.
SendsBy(p, o) ==
    {m \in FullSendArgs :
        m.sender = p /\ m.from = o /\ addr_validate(m.to) /\ HasRecord(Storage, o, m.token_id)}

\* C6 as stated: while the approval (O, P) = AtHeight(H) is stored, every
\* send_from by P from O is authorized at heights <= H-1 and fails with
\* Unauthorized at heights >= H, for every operator P.
C6_ExpiryBoundaryAnyOperator ==
    \A o \in Addrs, p \in Addrs :
        approves[<<o, p>>].kind = "AtHeight" =>
            \A m \in SendsBy(p, o) :
                LET r == DoSendFrom(Storage, height, m)
                IN /\ height <= approves[<<o, p>>].v - 1 => r.err = "Ok"
                   /\ height >= approves[<<o, p>>].v => r.err = "Unauthorized"

\* C6 (amended): while the approval (O, P) = AtHeight(H) of an operator P
\* other than O is stored, every send_from by P from O of a token O has a
\* record of is authorized at heights <= H-1 and fails with Unauthorized,
\* changing nothing, at heights >= H; the approval is stored unchanged at
\* heights >= H (no purge).
C6_ExpiryBoundary ==
    \A o \in Addrs : \A p \in Addrs \ {o} :
        approves[<<o, p>>].kind = "AtHeight" =>
            \A m \in SendsBy(p, o) :
                LET r == DoSendFrom(Storage, height, m)
                IN /\ height <= approves[<<o, p>>].v - 1 => r.err = "Ok"
                   /\ height >= approves[<<o, p>>].v =>
                         /\ r.err = "Unauthorized"
                         /\ Committed(Storage, r) = Storage

\* C6 witness: the approval AtHeight(H) is still stored at height H, its
\* owner holds a unit, and the operator's send is rejected.
C6_Witness ==
    \E o \in Addrs : \E p \in Addrs \ {o} :
        /\ approves[<<o, p>>].kind = "AtHeight"
        /\ height >= approves[<<o, p>>].v
        /\ \E m \in SendsBy(p, o) :
              /\ Bal(Storage, o, m.token_id) >= 1
              /\ DoSendFrom(Storage, height, m).err = "Unauthorized"

\* C7: in a batch_send_from or batch_burn in which the authorization check
\* of some item fails, nothing has been written when the handler returns:
\* all items are verified before the first balance write.
C7_BatchVerifiedBeforeWrite ==
    /\ \A m \in FullBatchSendArgs :
          LET v == verify_approvals(Storage, height, m.sender, m.from, m.batch)
              r == DoBatchSendFrom(Storage, height, m)
          IN v.err # "Ok" => (r.err = v.err /\ r.st = Storage)
    /\ \A m \in FullBatchBurnArgs :
          LET v == verify_approvals(Storage, height, m.sender, m.sender, m.batch)
              r == DoBatchBurn(Storage, height, m)
          IN v.err # "Ok" => (r.err = v.err /\ r.st = Storage)

\* C7 witness: a batch of two items whose first item is authorized for a
\* whole unit and whose second item fails leaves the storage untouched.
C7_Witness ==
    \E m \in FullBatchSendArgs :
        /\ Len(m.batch) = 2
        /\ m.from # m.to
        /\ LET v1 == verify_approval(Storage, height, m.sender, m.from,
                                     m.batch[1].token_id, m.batch[1].amount)
               v2 == verify_approval(Storage, height, m.sender, m.from,
                                     m.batch[2].token_id, m.batch[2].amount)
               r == DoBatchSendFrom(Storage, height, m)
           IN /\ v1.err = "Ok" /\ v1.item.amount = 1
              /\ v2.err # "Ok"
              /\ r.err = v2.err
              /\ r.st = Storage

RECURSIVE TotalOf(_, _)
TotalOf(batch, t) ==
    IF batch = <<>> THEN 0
    ELSE (IF Head(batch).token_id = t THEN Head(batch).amount ELSE 0) + TotalOf(Tail(batch), t)

\* The subtractions of the batch would take a balance of the owner below 0.
Underflows(owner, batch) ==
    \E t \in TokenIds : TotalOf(batch, t) > Bal(Storage, owner, t)

InRange(st) ==
    \A k \in Addrs \X TokenIds : st.balances[k] = NoBalance \/ st.balances[k] \in 0..U128Max

\* C9: every stored balance is >= 0 and within the amount type; a batch whose
\* subtractions would take a balance below 0 returns an arithmetic error
\* and stores nothing.
C9_NoNegativeBalance ==
    /\ InRange(Storage)
    /\ \A m \in LedgerBatchSendArgs :
          LET v == verify_approvals(Storage, height, m.sender, m.from, m.batch)
              r == DoBatchSendFrom(Storage, height, m)
          IN /\ InRange(r.st)
             /\ (v.err = "Ok" /\ Underflows(m.from, v.batch)) =>
                   (r.err = "Overflow" /\ Committed(Storage, r) = Storage)
    /\ \A m \in LedgerBatchBurnArgs :
          LET v == verify_approvals(Storage, height, m.sender, m.sender, m.batch)
              r == DoBatchBurn(Storage, height, m)
          IN /\ InRange(r.st)
             /\ (v.err = "Ok" /\ Underflows(m.sender, v.batch)) =>
                   (r.err = "Overflow" /\ Committed(Storage, r) = Storage)

\* C9 witness: a verified batch whose subtractions exceed the balance is
\* answered with the arithmetic error.
C9_Witness ==
    \E m \in LedgerBatchBurnArgs :
        LET v == verify_approvals(Storage, height, m.sender, m.sender, m.batch)
        IN /\ v.err = "Ok"
           /\ Underflows(m.sender, v.batch)
           /\ DoBatchBurn(Storage, height, m).err = "Overflow"

\* C10: a successful send_from of authorized amount c of token t from A to
\* B # A decreases balance(A,t) by c, increases balance(B,t) by c and leaves
\* the supply counters, every other balance and all approvals unchanged.
C10_TransferEffect ==
    \A m \in FullSendArgs :
        LET r == DoSendFrom(Storage, height, m)
            c == Min(m.amount, Bal(Storage, m.from, m.token_id))
        IN (r.err = "Ok" /\ m.from # m.to) =>
              /\ Bal(r.st, m.from, m.token_id) = Bal(Storage, m.from, m.token_id) - c
              /\ Bal(r.st, m.to, m.token_id) = Bal(Storage, m.to, m.token_id) + c
              /\ r.st.token_count = token_count
              /\ \A k \in (Addrs \X TokenIds)
                          \ {<<m.from, m.token_id>>, <<m.to, m.token_id>>} :
                    r.st.balances[k] = balances[k]
              /\ r.st.approves = approves
              /\ r.st.tokens = tokens
              /\ r.st.minter = minter

\* C10 witness: an operator moves a unit from its owner to a third address.
C10_Witness ==
    \E m \in FullSendArgs :
        /\ m.sender # m.from
        /\ m.from # m.to
        /\ m.sender # m.to
        /\ m.amount = 1
        /\ LET r == DoSendFrom(Storage, height, m)
           IN /\ r.err = "Ok"
              /\ Bal(r.st, m.from, m.token_id) = Bal(Storage, m.from, m.token_id) - 1
              /\ Bal(r.st, m.to, m.token_id) = Bal(Storage, m.to, m.token_id) + 1

\* The verified items of a batch: every quantity capped by the balance the
\* caller holds before the operation.
Capped(owner, batch) ==
    [i \in 1..Len(batch) |->
        TokenAmount(batch[i].token_id,
                    Min(batch[i].amount, Bal(Storage, owner, batch[i].token_id)))]

\* C11: a successful burn of token t requesting q by a caller C holding b
\* decreases balance(C,t) by exactly min(q,b) and the supply counter of t by
\* the same amount; a successful batch_burn does so for each of its items.
C11_BurnEffect ==
    /\ \A m \in LedgerBurnArgs :
          LET r == DoBurn(Storage, height, m)
              c == Min(m.amount, Bal(Storage, m.sender, m.token_id))
          IN r.err = "Ok" =>
                /\ Bal(r.st, m.sender, m.token_id) = Bal(Storage, m.sender, m.token_id) - c
                /\ r.st.token_count[m.token_id] = token_count[m.token_id] - c
                /\ \A t \in TokenIds \ {m.token_id} :
                      r.st.token_count[t] = token_count[t]
    /\ \A m \in LedgerBatchBurnArgs :
          LET r == DoBatchBurn(Storage, height, m)
              c == Capped(m.sender, m.batch)
          IN r.err = "Ok" =>
                \A t \in TokenIds :
                    /\ Bal(r.st, m.sender, t) = Bal(Storage, m.sender, t) - TotalOf(c, t)
                    /\ r.st.token_count[t] = token_count[t] - TotalOf(c, t)

\* C11 witness: a caller holding units of two tokens burns both in one batch,
\* asking for more than it holds of the second.
C11_Witness ==
    \E m \in LedgerBatchBurnArgs :
        /\ Len(m.batch) = 2
        /\ m.batch[1].token_id # m.batch[2].token_id
        /\ m.batch[2].amount > Bal(Storage, m.sender, m.batch[2].token_id)
        /\ Bal(Storage, m.sender, m.batch[2].token_id) >= 1
        /\ LET r == DoBatchBurn(Storage, height, m)
           IN /\ r.err = "Ok"
              /\ Bal(r.st, m.sender, m.batch[2].token_id) = 0
              /\ r.st.token_count[m.batch[2].token_id]
                    < token_count[m.batch[2].token_id]

\* C12: after O has executed revoke_all(P), every send_from or
\* batch_send_from by P (P # O) from O fails with Unauthorized, in the state
\* the revocation leaves and in every later state without a new
\* approve_all(P) of O.
C12_RevokedIsRejected ==
    \A o \in Addrs : \A p \in Addrs \ {o} :
        LET rv == revoke_all(Storage, o, p)
        IN /\ rv.err = "Ok"
           /\ rv.st.approves[<<o, p>>] = NoExpiration
           /\ \A m \in FullSendArgs :
                 (m.sender = p /\ m.from = o /\ addr_validate(m.to)) =>
                     DoSendFrom(rv.st, height, m).err = "Unauthorized"
           /\ \A m \in FullBatchSendArgs :
                 (m.sender = p /\ m.from = o) =>
                     DoBatchSendFrom(rv.st, height, m).err = "Unauthorized"

\* C13 as stated: a mint whose caller is not the stored minter fails with
\* Unauthorized and changes no balance, supply counter or token-info record.
C13_NonMinterUnauthorized ==
    \A m \in FullMintArgs :
        m.sender # minter =>
            LET r == DoMint(Storage, m)
            IN r.err = "Unauthorized" /\ r.st = Storage

\* C13 (amended): a mint whose caller is not the stored minter fails, with
\* Unauthorized when the recipient string is a valid address and with the
\* address-validation error when it is not, and writes nothing.
C13_MintMinterOnly ==
    \A m \in FullMintArgs :
        m.sender # minter =>
            LET r == DoMint(Storage, m)
            IN /\ r.err = (IF addr_validate(m.to) THEN "Unauthorized" ELSE "InvalidAddress")
               /\ r.st = Storage
               /\ Committed(Storage, r) = Storage

\* C13 witness: a mint of an existing token that the minter could execute is
\* refused to another caller.
C13_Witness ==
    \E m \in FullMintArgs :
        /\ m.sender # minter
        /\ addr_validate(m.to)
        /\ tokens[m.token_id] # NoToken
        /\ DoMint(Storage, m).err = "Unauthorized"
        /\ DoMint(Storage, [m EXCEPT !.sender = minter]).err = "Ok"

\* The expiry is already reached at the current block: AtHeight(H) with
\* H <= height, or AtTime(T) with T <= block time.
AlreadyExpired(ex) ==
    \/ ex.kind = "AtHeight" /\ ex.v <= height
    \/ ex.kind = "AtTime" /\ ex.v <= BlockTime(height)

\* C14: approve_all with an expiry that is already expired at the current
\* block fails with Expired and neither creates an approval nor overwrites
\* the stored approval of (caller, operator).
C14_ExpiredApprovalRejected ==
    \A m \in ApproveArgs :
        AlreadyExpired(m.expires) =>
            LET r == DoApproveAll(Storage, height, m)
            IN /\ r.err = "Expired"
               /\ r.st = Storage
               /\ Committed(Storage, r).approves = approves

\* C14 witness: the caller holds an approval for the operator that is not
\* expired, and submits one that is.
C14_Witness ==
    \E m \in ApproveArgs :
        /\ addr_validate(m.operator)
        /\ AlreadyExpired(m.expires)
        /\ approves[<<m.sender, m.operator>>] # NoExpiration
        /\ ~is_expired(approves[<<m.sender, m.operator>>], height)
        /\ LET r == DoApproveAll(Storage, height, m)
           IN r.err = "Expired" /\ r.st.approves = approves

\* C15: the token-info record of a token id is written only by the first
\* mint of that id; every later mint of the same id, also with different
\* metadata and also after every unit was burned, leaves the stored record
\* unchanged and still adds the minted quantity to the recipient's balance;
\* sends and burns leave the records unchanged.
C15_FirstWriterWins ==
    /\ \A m \in MetaMintArgs :
          LET r == DoMint(Storage, m)
          IN r.err = "Ok" =>
                /\ tokens[m.token_id] = NoToken =>
                      r.st.tokens = [tokens EXCEPT ![m.token_id] = m.token_uri]
                /\ tokens[m.token_id] # NoToken =>
                      /\ r.st.tokens = tokens
                      /\ Bal(r.st, m.to, m.token_id)
                            = Bal(Storage, m.to, m.token_id) + m.amount
    /\ \A m \in MetaSendArgs : DoSendFrom(Storage, height, m).st.tokens = tokens
    /\ \A m \in MetaBurnArgs : DoBurn(Storage, height, m).st.tokens = tokens

\* C15 witness: the token was minted with one uri, every unit of it was
\* burned, and a mint with another uri adds to the balance and keeps the
\* first uri.
C15_Witness ==
    \E m \in MetaMintArgs :
        /\ tokens[m.token_id] \notin {NoToken, m.token_uri}
        /\ SumBalances(Storage, m.token_id) = 0
        /\ LET r == DoMint(Storage, m)
           IN /\ r.err = "Ok"
              /\ r.st.tokens[m.token_id] = tokens[m.token_id]
              /\ Bal(r.st, m.to, m.token_id) = m.amount

\* C16: because of the capping, the balance subtraction never underflows:
\* for every batch that passes verify_approvals, batches listing the same
\* token id more than once included, the subtraction loop of
\* update_transfer_state returns no arithmetic error.
C16_VerifiedBatchNeverUnderflows ==
    /\ \A m \in LedgerBatchSendArgs :
          LET v == verify_approvals(Storage, height, m.sender, m.from, m.batch)
          IN v.err = "Ok" => SubtractPass(Storage, m.from, v.batch, 1).err = "Ok"
    /\ \A m \in LedgerBatchBurnArgs :
          LET v == verify_approvals(Storage, height, m.sender, m.sender, m.batch)
          IN v.err = "Ok" => SubtractPass(Storage, m.sender, v.batch, 1).err = "Ok"

\* C17: revoke_all(P) by O succeeds whether or not an approval (O,P) is
\* stored and whether or not it is expired; without a stored approval it
\* leaves the store unchanged; executing it twice yields the state that
\* executing it once yields.
C17_RevokeIdempotent ==
    \A m \in RevokeArgs :
        addr_validate(m.operator) =>
            LET once == DoRevokeAll(Storage, m)
                twice == DoRevokeAll(once.st, m)
            IN /\ once.err = "Ok"
               /\ once.st = [Storage EXCEPT !.approves[<<m.sender, m.operator>>] = NoExpiration]
               /\ approves[<<m.sender, m.operator>>] = NoExpiration => once.st = Storage
               /\ twice.err = "Ok"
               /\ twice.st = once.st

\* C17 witness: an approval that is stored and expired is removed, and the
\* second revocation leaves the store as the first left it.
C17_Witness ==
    \E m \in RevokeArgs :
        /\ addr_validate(m.operator)
        /\ approves[<<m.sender, m.operator>>] # NoExpiration
        /\ is_expired(approves[<<m.sender, m.operator>>], height)
        /\ LET once == DoRevokeAll(Storage, m)
           IN /\ once.err = "Ok"
              /\ once.st.approves[<<m.sender, m.operator>>] = NoExpiration
              /\ DoRevokeAll(once.st, m).st = once.st

\* C18: the minter stored by instantiate is the minter in every reachable
\* state: no mint, send_from, batch_send_from, burn, batch_burn, approve_all
\* or revoke_all writes it.
C18_MinterImmutable ==
    /\ minter = Minter
    /\ \A m \in FullMintArgs : DoMint(Storage, m).st.minter = minter
    /\ \A m \in FullSendArgs : DoSendFrom(Storage, height, m).st.minter = minter
    /\ \A m \in FullBatchSendArgs : DoBatchSendFrom(Storage, height, m).st.minter = minter
    /\ \A m \in FullBurnArgs : DoBurn(Storage, height, m).st.minter = minter
    /\ \A m \in FullBatchBurnArgs : DoBatchBurn(Storage, height, m).st.minter = minter
    /\ \A m \in ApproveArgs : DoApproveAll(Storage, height, m).st.minter = minter
    /\ \A m \in RevokeArgs : DoRevokeAll(Storage, m).st.minter = minter

\* C18 witness: after mints, a transfer to an address that is not the minter
\* and an approval, the minter is the address given to instantiate.
C18_Witness ==
    /\ minter = Minter
    /\ \E a \in Addrs \ {Minter} : \E t \in TokenIds : Bal(Storage, a, t) >= 1
    /\ \E t \in TokenIds : HasRecord(Storage, Minter, t) /\ Bal(Storage, Minter, t) = 0
    /\ \E k \in Addrs \X Addrs : approves[k] # NoExpiration

\* The balances of owner a have gone down by the quantities the list names.
Debited(st, a, toks) ==
    \A t \in TokenIds : Bal(st, a, t) = Bal(Storage, a, t) - TotalOf(toks, t)

\* The balances of owner a have gone up by the quantities the list names.
Credited(st, a, toks) ==
    \A t \in TokenIds : Bal(st, a, t) = Bal(Storage, a, t) + TotalOf(toks, t)

\* C19: every successful mint, send_from, batch_send_from, burn or batch_burn
\* returns one event for the whole operation: a mint event naming `to', a
\* burn event naming `from', a transfer event naming both; its list of
\* (token id, quantity) holds the capped quantities, which are the quantities
\* subtracted from the source and added to the recipient.
C19_OneEventOfAppliedAmounts ==
    /\ \A m \in FullMintArgs :
          LET r == DoMint(Storage, m)
          IN r.err = "Ok" =>
                /\ r.event = Event("mint", NoAddr, m.to, <<TokenAmount(m.token_id, m.amount)>>)
                /\ Credited(r.st, m.to, r.event.tokens)
    /\ \A m \in FullSendArgs :
          LET r == DoSendFrom(Storage, height, m)
          IN r.err = "Ok" =>
                /\ r.event = Event("transfer", m.from, m.to,
                                   Capped(m.from, <<TokenAmount(m.token_id, m.amount)>>))
                /\ m.from # m.to =>
                      Debited(r.st, m.from, r.event.tokens)
                          /\ Credited(r.st, m.to, r.event.tokens)
    /\ \A m \in FullBatchSendArgs :
          LET r == DoBatchSendFrom(Storage, height, m)
          IN r.err = "Ok" =>
                /\ r.event = Event("transfer", m.from, m.to, Capped(m.from, m.batch))
                /\ m.from # m.to =>
                      Debited(r.st, m.from, r.event.tokens)
                          /\ Credited(r.st, m.to, r.event.tokens)
    /\ \A m \in FullBurnArgs :
          LET r == DoBurn(Storage, height, m)
          IN r.err = "Ok" =>
                /\ r.event = Event("burn", m.sender, NoAddr,
                                   Capped(m.sender, <<TokenAmount(m.token_id, m.amount)>>))
                /\ Debited(r.st, m.sender, r.event.tokens)
    /\ \A m \in FullBatchBurnArgs :
          LET r == DoBatchBurn(Storage, height, m)
          IN r.err = "Ok" =>
                /\ r.event = Event("burn", m.sender, NoAddr, Capped(m.sender, m.batch))
                /\ Debited(r.st, m.sender, r.event.tokens)

\* C19 witness: a batch of two tokens to another address, of which the
\* source holds a unit of the first and a record without units of the
\* second: the transfer event lists 1 and 0, not the requested 1 and 1.
C19_Witness ==
    \E m \in FullBatchSendArgs :
        /\ Len(m.batch) = 2
        /\ m.from # m.to
        /\ LET r == DoBatchSendFrom(Storage, height, m)
           IN /\ r.err = "Ok"
              /\ r.event.kind = "transfer"
              /\ r.event.tokens # m.batch
              /\ r.event.tokens[1].amount = 1
              /\ r.event.tokens[2].amount = 0
              /\ Debited(r.st, m.from, r.event.tokens)

\* C20: in mint, send_from, batch_send_from, approve_all and revoke_all
\* nothing is written before every address string of the message has been
\* validated: a message with an address string that does not validate fails
\* and leaves balances, supply counters, approvals and token info as they
\* were, in the handler's own storage as well as after the message.
C20_NoWriteBeforeValidation ==
    /\ \A m \in FullMintArgs :
          ~addr_validate(m.to) =>
              LET r == DoMint(Storage, m)
              IN r.err = "InvalidAddress" /\ r.st = Storage /\ Committed(Storage, r) = Storage
    /\ \A m \in FullSendArgs :
          ~ValidAddrs(m) =>
              LET r == DoSendFrom(Storage, height, m)
              IN r.err = "InvalidAddress" /\ r.st = Storage /\ Committed(Storage, r) = Storage
    /\ \A m \in InvalidBatchSendArgs :
          LET r == DoBatchSendFrom(Storage, height, m)
          IN r.err = "InvalidAddress" /\ r.st = Storage /\ Committed(Storage, r) = Storage
    /\ \A m \in ApproveArgs :
          ~addr_validate(m.operator) =>
              LET r == DoApproveAll(Storage, height, m)
              IN /\ r.err = (IF AlreadyExpired(m.expires) THEN "Expired" ELSE "InvalidAddress")
                 /\ r.st = Storage
                 /\ Committed(Storage, r) = Storage
    /\ \A m \in RevokeArgs :
          ~addr_validate(m.operator) =>
              LET r == DoRevokeAll(Storage, m)
              IN r.err = "InvalidAddress" /\ r.st = Storage /\ Committed(Storage, r) = Storage

\* C20 witness: the owner of a unit sends it to a string that does not
\* validate; the send fails with nothing written, and the same send to an
\* address succeeds.
C20_Witness ==
    \E m \in FullSendArgs :
        /\ m.sender = m.from
        /\ m.to = InvalidAddr
        /\ m.amount >= 1
        /\ Bal(Storage, m.from, m.token_id) >= 1
        /\ LET r == DoSendFrom(Storage, height, m)
           IN r.err = "InvalidAddress" /\ r.st = Storage
        /\ \E a \in Addrs \ {m.from} :
              DoSendFrom(Storage, height, [m EXCEPT !.to = a]).err = "Ok"

\* The batch names a token the owner has no balance record of.
LacksRecord(owner, batch) ==
    \E i \in 1..Len(batch) : ~HasRecord(Storage, owner, batch[i].token_id)

\* C21 as stated: a send_from, batch_send_from, burn or batch_burn that names
\* a token id the source owner has no balance record of fails with the
\* not-found error and changes nothing, for the owner, an approved operator
\* and an unapproved caller alike.
C21_NoRecordIsNotFound ==
    /\ \A m \in FullSendArgs :
          (ValidAddrs(m) /\ ~HasRecord(Storage, m.from, m.token_id)) =>
              LET r == DoSendFrom(Storage, height, m)
              IN r.err = "NotFound" /\ r.st = Storage
    /\ \A m \in FullBatchSendArgs :
          LacksRecord(m.from, m.batch) =>
              LET r == DoBatchSendFrom(Storage, height, m)
              IN r.err = "NotFound" /\ r.st = Storage
    /\ \A m \in FullBurnArgs :
          ~HasRecord(Storage, m.sender, m.token_id) =>
              LET r == DoBurn(Storage, height, m)
              IN r.err = "NotFound" /\ r.st = Storage
    /\ \A m \in FullBatchBurnArgs :
          LacksRecord(m.sender, m.batch) =>
              LET r == DoBatchBurn(Storage, height, m)
              IN r.err = "NotFound" /\ r.st = Storage

\* C21 (amended): such an operation fails and changes nothing.  The error is
\* the not-found error for send_from and burn whoever the caller is, and for
\* a batch of the owner or of an approved operator; the batch of an
\* unapproved caller fails on its first item, with Unauthorized when the
\* owner has a record of that item's token and with not-found when not.
C21_NoRecordFails ==
    /\ \A m \in FullSendArgs :
          (ValidAddrs(m) /\ ~HasRecord(Storage, m.from, m.token_id)) =>
              LET r == DoSendFrom(Storage, height, m)
              IN r.err = "NotFound" /\ r.st = Storage
    /\ \A m \in FullBatchSendArgs :
          LacksRecord(m.from, m.batch) =>
              LET r == DoBatchSendFrom(Storage, height, m)
              IN /\ r.st = Storage
                 /\ MayAct(m.sender, m.from) => r.err = "NotFound"
                 /\ ~MayAct(m.sender, m.from) =>
                       r.err = (IF HasRecord(Storage, m.from, m.batch[1].token_id)
                                   THEN "Unauthorized" ELSE "NotFound")
    /\ \A m \in FullBurnArgs :
          ~HasRecord(Storage, m.sender, m.token_id) =>
              LET r == DoBurn(Storage, height, m)
              IN r.err = "NotFound" /\ r.st = Storage
    /\ \A m \in FullBatchBurnArgs :
          LacksRecord(m.sender, m.batch) =>
              LET r == DoBatchBurn(Storage, height, m)
              IN r.err = "NotFound" /\ r.st = Storage

\* C21 witness: a caller without approval names a token its target has no
\* record of, the target holding units of the other token, and is answered
\* with not-found; an approved operator is answered the same.
C21_Witness ==
    /\ \E m \in FullSendArgs :
          /\ ValidAddrs(m)
          /\ ~MayAct(m.sender, m.from)
          /\ ~HasRecord(Storage, m.from, m.token_id)
          /\ \E t \in TokenIds : Bal(Storage, m.from, t) >= 1
          /\ DoSendFrom(Storage, height, m).err = "NotFound"
    /\ \E m \in FullSendArgs :
          /\ ValidAddrs(m)
          /\ m.sender # m.from
          /\ MayAct(m.sender, m.from)
          /\ ~HasRecord(Storage, m.from, m.token_id)
          /\ DoSendFrom(Storage, height, m).err = "NotFound"

\* The expiration e lets an operator act at height h.
LiveAt(e, h) ==
    \/ e.kind = "Never"
    \/ e.kind = "AtHeight" /\ h < e.v
    \/ e.kind = "AtTime" /\ BlockTime(h) < e.v

\* C22: the pair (owner, operator) has one approval and the latest accepted
\* approve_all decides: after approve_all(P, e1) and approve_all(P, e2) of O
\* the store is the one approve_all(P, e2) alone leaves, and at the current
\* and every later height P may act for O exactly when e2 is not expired.
C22_LatestApprovalWins ==
    \A m2 \in ApproveArgs :
        LET r2 == DoApproveAll(Storage, height, m2)
            key == <<m2.sender, m2.operator>>
            e2 == unwrap_or_default(m2.expires)
        IN r2.err = "Ok" =>
              /\ r2.st = [Storage EXCEPT !.approves[key] = e2]
              /\ \A m1 \in ApproveArgs :
                    (m1.sender = m2.sender /\ m1.operator = m2.operator) =>
                        LET r1 == DoApproveAll(Storage, height, m1)
                        IN r1.err = "Ok" => DoApproveAll(r1.st, height, m2).st = r2.st
              /\ m2.sender # m2.operator =>
                    \A h \in height..MaxHeight :
                        /\ is_authorized(r2.st, h, m2.operator, m2.sender) <=> LiveAt(e2, h)
                        /\ \A s \in SendsBy(m2.operator, m2.sender) :
                              DoSendFrom(r2.st, h, s).err
                                  = (IF LiveAt(e2, h) THEN "Ok" ELSE "Unauthorized")

\* C22 witness: O has approved P without expiry and replaces the approval by
\* one that ends at a later height H; at H the send of P that the first
\* approval allows is refused.
C22_Witness ==
    \E m2 \in ApproveArgs :
        /\ m2.sender # m2.operator
        /\ addr_validate(m2.operator)
        /\ approves[<<m2.sender, m2.operator>>] = Never
        /\ m2.expires.kind = "AtHeight"
        /\ m2.expires.v > height
        /\ LET r2 == DoApproveAll(Storage, height, m2)
           IN /\ r2.err = "Ok"
              /\ \E s \in SendsBy(m2.operator, m2.sender) :
                    /\ s.amount >= 1
                    /\ Bal(Storage, m2.sender, s.token_id) >= 1
                    /\ DoSendFrom(Storage, m2.expires.v, s).err = "Ok"
                    /\ DoSendFrom(r2.st, m2.expires.v, s).err = "Unauthorized"

\* Every balance record of the current storage is a record of st.
KeepsRecords(st) ==
    \A k \in Addrs \X TokenIds : balances[k] # NoBalance => st.balances[k] # NoBalance

\* C23: no message deletes a balance record, also not when its quantity
\* reaches 0; an authorized send_from or burn on a balance of 0 succeeds as
\* an operation of quantity 0 that leaves the source at 0.
C23_RecordsPersist ==
    /\ \A m \in FullMintArgs : KeepsRecords(DoMint(Storage, m).st)
    /\ \A m \in FullSendArgs : KeepsRecords(DoSendFrom(Storage, height, m).st)
    /\ \A m \in FullBatchSendArgs : KeepsRecords(DoBatchSendFrom(Storage, height, m).st)
    /\ \A m \in FullBurnArgs : KeepsRecords(DoBurn(Storage, height, m).st)
    /\ \A m \in FullBatchBurnArgs : KeepsRecords(DoBatchBurn(Storage, height, m).st)
    /\ \A m \in ApproveArgs : KeepsRecords(DoApproveAll(Storage, height, m).st)
    /\ \A m \in RevokeArgs : KeepsRecords(DoRevokeAll(Storage, m).st)
    /\ \A m \in FullSendArgs :
          (ValidAddrs(m) /\ MayAct(m.sender, m.from)
              /\ balances[<<m.from, m.token_id>>] = 0) =>
              LET r == DoSendFrom(Storage, height, m)
              IN /\ r.err = "Ok"
                 /\ r.event.tokens = <<TokenAmount(m.token_id, 0)>>
                 /\ r.st.balances[<<m.from, m.token_id>>] = 0
                 /\ Bal(r.st, m.to, m.token_id) = Bal(Storage, m.to, m.token_id)
    /\ \A m \in FullBurnArgs :
          balances[<<m.sender, m.token_id>>] = 0 =>
              LET r == DoBurn(Storage, height, m)
              IN /\ r.err = "Ok"
                 /\ r.event.tokens = <<TokenAmount(m.token_id, 0)>>
                 /\ r.st.balances[<<m.sender, m.token_id>>] = 0
                 /\ r.st.token_count = token_count

\* C23 witness: an owner whose units were all moved away still has the
\* record, and its send of two units to another address succeeds with
\* quantity 0.
C23_Witness ==
    \E m \in FullSendArgs :
        /\ ValidAddrs(m)
        /\ m.sender = m.from
        /\ m.from # m.to
        /\ m.amount = MaxAmount
        /\ balances[<<m.from, m.token_id>>] = 0
        /\ token_count[m.token_id] >= 1
        /\ LET r == DoSendFrom(Storage, height, m)
           IN /\ r.err = "Ok"
              /\ r.st.balances[<<m.from, m.token_id>>] = 0
              /\ r.event.tokens[1].amount = 0

\* C24: no execute message, with any arguments, makes a handler call
\* update_transfer_state without `from' and without `to': no handler ends
\* in the panic of that branch (nor in the one of the balance unwrap).
C24_PanicUnreachable ==
    /\ \A m \in FullMintArgs : DoMint(Storage, m).err # "Panic"
    /\ \A m \in FullSendArgs : DoSendFrom(Storage, height, m).err # "Panic"
    /\ \A m \in FullBatchSendArgs \cup InvalidBatchSendArgs :
          DoBatchSendFrom(Storage, height, m).err # "Panic"
    /\ \A m \in FullBurnArgs : DoBurn(Storage, height, m).err # "Panic"
    /\ \A m \in FullBatchBurnArgs : DoBatchBurn(Storage, height, m).err # "Panic"
    /\ \A m \in ApproveArgs : DoApproveAll(Storage, height, m).err # "Panic"
    /\ \A m \in RevokeArgs : DoRevokeAll(Storage, m).err # "Panic"

\* C24 witness: in one state a mint, a transfer, a burn and a batch burn of
\* no item at all go through update_transfer_state, each in its own branch.
C24_Witness ==
    /\ \E m \in FullMintArgs : DoMint(Storage, m).event.kind = "mint"
    /\ \E m \in FullSendArgs :
          m.amount = 0 /\ DoSendFrom(Storage, height, m).event.kind = "transfer"
    /\ \E m \in FullBurnArgs :
          m.amount = 0 /\ DoBurn(Storage, height, m).event.kind = "burn"
    /\ \E m \in FullBatchBurnArgs :
          m.batch = <<>> /\ DoBatchBurn(Storage, height, m).event.kind = "burn"

\* C25: in every reachable state of the fixed-price sale unused_token_id <=
\* max_tokens; the successful execute_receive calls, one Mint message each,
\* never number more than max_tokens; once unused_token_id = max_tokens every
\* execute_receive of the cw20 contract fails with SoldOut.
C25_SaleCap ==
    /\ sale.config.unused_token_id <= sale.config.max_tokens
    /\ Len(minted) <= sale.config.max_tokens
    /\ Len(minted) = sale.config.unused_token_id
    /\ (sale.config.saved /\ sale.config.unused_token_id = sale.config.max_tokens) =>
          \A m \in ReceiveArgs :
              m.info_sender = sale.config.cw20_address =>
                  LET r == DoReceive(sale, m)
                  IN r.err = "SoldOut" /\ r.st = sale /\ r.messages = <<>>

\* C25 witness: a sale of MaxTokens tokens has sold them all and refuses the
\* next payment of the exact price.
C25_Witness ==
    /\ sale.config.saved
    /\ sale.config.max_tokens = MaxTokens
    /\ sale.config.unused_token_id = MaxTokens
    /\ Len(minted) = MaxTokens
    /\ \E m \in ReceiveArgs :
          /\ m.info_sender = sale.config.cw20_address
          /\ m.amount = sale.config.unit_price
          /\ DoReceive(sale, m).err = "SoldOut"

\* The digit a one-character string stands for.
DigitValue(d) == (CHOOSE i \in 1..10 : Digits[i] = d) - 1

\* The number a string of decimal digits stands for.
RECURSIVE DecimalValue(_)
DecimalValue(str) ==
    IF str = <<>> THEN 0
    ELSE 10 * DecimalValue(SubSeq(str, 1, Len(str) - 1)) + DigitValue(str[Len(str)])

\* The decimal string of n: its digits, without a leading zero.
IsDecimalOf(str, n) ==
    /\ Len(str) >= 1
    /\ \A i \in 1..Len(str) : \E j \in 1..10 : Digits[j] = str[i]
    /\ Len(str) > 1 => str[1] # "0"
    /\ DecimalValue(str) = n

\* C26: the k-th successful execute_receive emits exactly one Mint message,
\* addressed to the linked cw721 contract, with the decimal string of k-1 as
\* token id, the `sender' of the receive message as owner and the configured
\* token_uri and extension, and adds exactly 1 to unused_token_id; no token
\* id is issued twice.
C26_SequentialTokenIds ==
    /\ \A n \in 0..MaxTokenId : IsDecimalOf(to_string(n), n)
    /\ \A k \in 1..Len(minted) :
          /\ IsDecimalOf(minted[k].token_id, k - 1)
          /\ minted[k].contract = sale.config.cw721_address
          /\ minted[k].token_uri = sale.config.token_uri
          /\ minted[k].extension = ExtensionMsg(sale.config.extension)
    /\ \A j \in 1..Len(minted) : \A k \in 1..Len(minted) :
          j # k => minted[j].token_id # minted[k].token_id
    /\ \A m \in ReceiveArgs :
          LET r == DoReceive(sale, m)
          IN r.err = "Ok" =>
                /\ Len(r.messages) = 1
                /\ r.messages[1].kind = "mint"
                /\ IsDecimalOf(r.messages[1].token_id, Len(minted))
                /\ r.messages[1].contract = sale.config.cw721_address
                /\ r.messages[1].contract \in NftAddrs
                /\ r.messages[1].owner = m.sender
                /\ r.messages[1].token_uri = sale.config.token_uri
                /\ r.messages[1].extension = ExtensionMsg(sale.config.extension)
                /\ r.st = [sale EXCEPT !.config.unused_token_id = sale.config.unused_token_id + 1]

\* C26 witness: two tokens were sold to two buyers, the first with id "0",
\* the second with id "1".
C26_Witness ==
    /\ Len(minted) = 2
    /\ minted[1].token_id = <<"0">>
    /\ minted[2].token_id = <<"1">>
    /\ minted[1].owner # minted[2].owner
    /\ sale.config.unused_token_id = 2

Linked == sale.config.saved /\ sale.config.cw721_address # NoCw721
Unlinked == sale.config.saved /\ sale.config.cw721_address = NoCw721

\* C27: the first reply with the instantiate reply id stores the address of
\* the new contract in cw721_address; every later reply fails with
\* Cw721AlreadyLinked; no later reply or execute call changes or clears
\* cw721_address.
C27_LinkedOnce ==
    /\ Unlinked =>
          \A m \in ReplyArgs :
              (m.id = INSTANTIATE_TOKEN_REPLY_ID /\ m.ok) =>
                  LET r == DoReply(sale, m)
                  IN /\ r.err = "Ok"
                     /\ r.st = [sale EXCEPT !.config.cw721_address = m.contract_address]
    /\ Linked =>
          /\ \A m \in ReplyArgs :
                LET r == DoReply(sale, m)
                IN r.err = "Cw721AlreadyLinked" /\ r.st = sale
          /\ \A m \in ReceiveArgs :
                DoReceive(sale, m).st.config.cw721_address = sale.config.cw721_address
          /\ \A k \in 1..Len(minted) : minted[k].contract = sale.config.cw721_address

\* C27 witness: the sale is linked and has sold a token; a reply with the
\* instantiate reply id that carries another address is refused.
C27_Witness ==
    /\ Linked
    /\ Len(minted) >= 1
    /\ \E m \in ReplyArgs :
          /\ m.id = INSTANTIATE_TOKEN_REPLY_ID
          /\ m.ok
          /\ m.contract_address # sale.config.cw721_address
          /\ DoReply(sale, m).err = "Cw721AlreadyLinked"

\* The error execute_receive answers the message with, "Ok" when none.
ReceiveOutcome(m) ==
    IF m.info_sender # sale.config.cw20_address THEN "UnauthorizedTokenContract"
    ELSE IF ~Linked THEN "Uninitialized"
    ELSE IF ~(sale.config.unused_token_id < sale.config.max_tokens) THEN "SoldOut"
    ELSE IF m.amount # sale.config.unit_price THEN "WrongPaymentAmount"
    ELSE "Ok"

\* C28: execute_receive succeeds if and only if the caller is the configured
\* cw20 contract, the cw721 contract is linked, unused_token_id < max_tokens
\* and the amount equals unit_price; otherwise it fails with
\* UnauthorizedTokenContract, Uninitialized, SoldOut or WrongPaymentAmount,
\* the first of them that applies, and writes and emits nothing; no Mint
\* message is emitted before the cw721 contract is linked.
C28_ReceiveGuards ==
    /\ sale.config.saved =>
          \A m \in ReceiveArgs :
              LET r == DoReceive(sale, m)
              IN /\ r.err = ReceiveOutcome(m)
                 /\ r.err = "Ok" <=>
                       /\ m.info_sender = sale.config.cw20_address
                       /\ Linked
                       /\ sale.config.unused_token_id < sale.config.max_tokens
                       /\ m.amount = sale.config.unit_price
                 /\ r.err # "Ok" => (r.st = sale /\ r.messages = <<>>)
    /\ ~Linked => minted = <<>>

\* C28 witness: a linked sale with tokens left accepts the exact price from
\* the cw20 contract and refuses one unit more and one unit less.
C28_Witness ==
    /\ Linked
    /\ sale.config.unused_token_id < sale.config.max_tokens
    /\ sale.config.unit_price >= 1
    /\ \E m \in ReceiveArgs :
          /\ m.info_sender = sale.config.cw20_address
          /\ m.amount = sale.config.unit_price
          /\ DoReceive(sale, m).err = "Ok"
          /\ DoReceive(sale, [m EXCEPT !.amount = @ + 1]).err = "WrongPaymentAmount"
          /\ DoReceive(sale, [m EXCEPT !.amount = @ - 1]).err = "WrongPaymentAmount"

\* C29: a reply whose id is not the instantiate reply id, received while no
\* cw721 contract is linked, fails with InvalidTokenReplyId and leaves
\* cw721_address unset; a later reply with the instantiate reply id still
\* links the contract.
C29_WrongReplyId ==
    Unlinked =>
        \A m \in ReplyArgs :
            m.id # INSTANTIATE_TOKEN_REPLY_ID =>
                LET r == DoReply(sale, m)
                    after == Committed(sale, r)
                IN /\ r.err = "InvalidTokenReplyId"
                   /\ r.st = sale
                   /\ after.config.cw721_address = NoCw721
                   /\ \A m2 \in ReplyArgs :
                         (m2.id = INSTANTIATE_TOKEN_REPLY_ID /\ m2.ok) =>
                             LET r2 == DoReply(after, m2)
                             IN /\ r2.err = "Ok"
                                /\ r2.st.config.cw721_address = m2.contract_address

\* C29 witness: an instantiated sale without a linked contract refuses a
\* reply with another id that carries an address.
C29_Witness ==
    /\ Unlinked
    /\ \E m \in ReplyArgs :
          /\ m.id = OtherReplyId
          /\ m.ok
          /\ DoReply(sale, m).err = "InvalidTokenReplyId"
          /\ DoReply(sale, [m EXCEPT !.id = INSTANTIATE_TOKEN_REPLY_ID]).st.config.cw721_address
                = m.contract_address

\* C30: instantiate succeeds only when unit_price > 0 and max_tokens > 0:
\* unit_price = 0 fails with InvalidUnitPrice, also when max_tokens = 0;
\* max_tokens = 0 alone fails with InvalidMaxTokens; in both cases no Config
\* is stored and no sub-message is emitted; on success the stored Config has
\* no cw721_address and unused_token_id = 0.
C30_InstantiateGuards ==
    ~sale.config.saved =>
        \A m \in InstantiateArgs :
            LET r == DoInstantiate(sale, m)
            IN /\ r.err = (IF m.unit_price = 0 THEN "InvalidUnitPrice"
                           ELSE IF m.max_tokens = 0 THEN "InvalidMaxTokens"
                           ELSE "Ok")
               /\ r.err # "Ok" =>
                     /\ r.st.config = NoConfig
                     /\ r.messages = <<>>
                     /\ Committed(sale, r) = sale
               /\ r.err = "Ok" =>
                     /\ r.st.config.saved
                     /\ r.st.config.cw721_address = NoCw721
                     /\ r.st.config.unused_token_id = 0
                     /\ r.st.config.unit_price = m.unit_price
                     /\ r.st.config.max_tokens = m.max_tokens
                     /\ r.st.config.cw20_address = m.cw20_address
                     /\ Len(r.messages) = 1
                     /\ r.messages[1].kind = "instantiate"
                     /\ r.messages[1].id = INSTANTIATE_TOKEN_REPLY_ID

\* C30 witness: a sale as instantiate leaves it: a positive price and token
\* number, no linked contract, no token issued.
C30_Witness ==
    /\ sale.config.saved
    /\ sale.contract_version = CONTRACT_NAME
    /\ sale.config.unit_price > 0
    /\ sale.config.max_tokens > 0
    /\ sale.config.cw721_address = NoCw721
    /\ sale.config.unused_token_id = 0
    /\ minted = <<>>

\* An approval of operator by owner that is in force at height h.
LiveOperator(st, h, owner, operator) ==
    /\ st.operators[<<owner, operator>>] # NoExpiration
    /\ ~is_expired(st.operators[<<owner, operator>>], h)

\* C31: an operator approval belongs to the owner who granted it, not to a
\* token: while owner o's ApproveAll(p, Never) stands, p can transfer any token
\* o owns, the transfer leaves all operator approvals as they were, and no
\* step that changes a token's owner takes the approval away, so p can
\* transfer the token again whenever o owns it again.
C31_OperatorApprovalPersists ==
    /\ [](\A o \in Addrs, p \in Addrs, t \in TokenIds, to \in Addrs :
            (nft.operators[<<o, p>>] = Never /\ nft.owner[t] = o) =>
                LET r == transfer_nft(nft, height, p, to, t)
                IN /\ r.err = "Ok"
                   /\ r.st.owner[t] = to
                   /\ r.st.operators = nft.operators)
    /\ [][\A o \in Addrs, p \in Addrs :
            (nft.operators[<<o, p>>] = Never /\ nft'.owner # nft.owner) =>
                nft'.operators[<<o, p>>] = Never]_vars

\* The owner's unlimited approval of the operator stands while the operator
\* holds a token of its own and the owner holds one the operator can transfer.
C31_Witness ==
    \E o \in Addrs, p \in Addrs \ {NftMinter} :
        /\ p # o
        /\ nft.operators[<<o, p>>] = Never
        /\ \E t \in TokenIds : nft.owner[t] = o
        /\ \E t \in TokenIds : nft.owner[t] = p

\* C32: a TransferNft by an address that is neither the token's owner nor an
\* operator the owner approved (the previous owner after a transfer, for one)
\* fails with Ownership(NotOwner) and changes nothing.
C32_PreviousOwnerRejected ==
    \A c \in Addrs, t \in TokenIds, to \in AddrStrings :
        (/\ nft.owner[t] # NoAddr
         /\ c # nft.owner[t]
         /\ ~LiveOperator(nft, height, nft.owner[t], c)) =>
            LET r == transfer_nft(nft, height, c, to, t)
            IN r.err = "NotOwner" /\ r.st = nft

\* A token is owned by n, and c, who approved n as its operator, is not
\* approved by n.
C32_Witness ==
    \E c \in Addrs, t \in TokenIds :
        /\ nft.owner[t] \notin {NoAddr, c}
        /\ nft.operators[<<c, nft.owner[t]>>] = Never
        /\ ~LiveOperator(nft, height, nft.owner[t], c)

\* C33: once owner o has executed RevokeAll(p), a TransferNft by p of a token
\* o owns fails with Ownership(NotOwner) and changes nothing, also when p could
\* transfer the token before.
C33_RevokedOperatorRejected ==
    \A o \in Addrs, p \in Addrs, t \in TokenIds, to \in AddrStrings :
        (p # o /\ nft.owner[t] = o) =>
            LET revoked == nft_revoke_all(nft, o, p)
                r == transfer_nft(revoked.st, height, p, to, t)
            IN /\ revoked.err = "Ok"
               /\ r.err = "NotOwner"
               /\ r.st = revoked.st
               /\ r.st.owner[t] = o

\* The operator can transfer the owner's token before the revocation.
C33_Witness ==
    \E o \in Addrs, p \in Addrs, t \in TokenIds :
        /\ p # o
        /\ nft.owner[t] = o
        /\ LiveOperator(nft, height, o, p)
        /\ transfer_nft(nft, height, p, p, t).err = "Ok"

\* C34: UpdateNftInfo by any address other than the creator, the token's owner
\* included, fails with NotCreator; a failed UpdateNftInfo leaves every
\* token's uri and extension as they were; no UpdateNftInfo changes the token
\* count or a token's owner.
C34_UpdateCreatorOnly ==
    \A m \in NftUpdateArgs :
        LET r == DoUpdateNftInfo(nft, m)
        IN /\ m.sender # nft.creator => r.err = "NotCreator"
           /\ r.err # "Ok" =>
                (r.st.token_uri = nft.token_uri /\ r.st.extension = nft.extension)
           /\ r.st.token_count = nft.token_count
           /\ r.st.owner = nft.owner

\* A token owned by somebody other than the creator, whose metadata the
\* creator has updated.
C34_Witness ==
    \E t \in TokenIds :
        /\ nft.owner[t] \notin {NoAddr, nft.creator}
        /\ nft.token_uri[t] \notin MintUris
        /\ nft.token_count = Cardinality({x \in TokenIds : nft.owner[x] # NoAddr})

\* A batch that lists some token id more than once.
HasDuplicates(batch) ==
    \E i \in 1..Len(batch), j \in 1..Len(batch) :
        i < j /\ batch[i].token_id = batch[j].token_id

\* C35: duplicate token ids in a batch accumulate: a successful
\* batch_send_from that lists a token id several times takes the sum of the
\* authorized amounts of all its occurrences from the source and gives that
\* sum to the recipient; a successful batch_burn takes the sum from the
\* caller's balance and from the supply counter.
C35_DuplicatesAccumulate ==
    /\ \A m \in LedgerBatchSendArgs :
          LET r == DoBatchSendFrom(Storage, height, m)
              c == Capped(m.from, m.batch)
          IN (r.err = "Ok" /\ HasDuplicates(m.batch)) =>
                \A a \in Addrs, t \in TokenIds :
                    Bal(r.st, a, t) =
                        Bal(Storage, a, t)
                            - (IF a = m.from THEN TotalOf(c, t) ELSE 0)
                            + (IF a = m.to THEN TotalOf(c, t) ELSE 0)
    /\ \A m \in LedgerBatchBurnArgs :
          LET r == DoBatchBurn(Storage, height, m)
              c == Capped(m.sender, m.batch)
          IN (r.err = "Ok" /\ HasDuplicates(m.batch)) =>
                \A t \in TokenIds :
                    /\ Bal(r.st, m.sender, t) = Bal(Storage, m.sender, t) - TotalOf(c, t)
                    /\ r.st.token_count[t] = token_count[t] - TotalOf(c, t)

\* C35 witness: a batch listing one unit of the same token twice moves two
\* units from its owner to another address.
C35_Witness ==
    \E m \in LedgerBatchSendArgs :
        /\ m.from # m.to
        /\ HasDuplicates(m.batch)
        /\ Len(m.batch) = 2
        /\ LET r == DoBatchSendFrom(Storage, height, m)
               t == m.batch[1].token_id
           IN /\ r.err = "Ok"
              /\ TotalOf(Capped(m.from, m.batch), t) = 2
              /\ Bal(r.st, m.to, t) = Bal(Storage, m.to, t) + 2
              /\ Bal(r.st, m.from, t) = Bal(Storage, m.from, t) - 2

\* C36: when a payload is given, the amount the Cw1155ReceiveMsg of a
\* successful send_from carries is the amount actually moved (the request
\* capped by the source's balance), as the batch of the
\* Cw1155BatchReceiveMsg is the capped batch.
C36_ReceiveMsgCarriesMovedAmount ==
    /\ \A m \in LedgerSendArgs :
          LET r == DoSendFrom(Storage, height, m)
              c == Min(m.amount, Bal(Storage, m.from, m.token_id))
          IN (r.err = "Ok" /\ m.payload) =>
                r.messages = <<ReceiveMsg(m.sender, m.from, m.to, m.token_id, c)>>
    /\ \A m \in LedgerBatchSendArgs :
          LET r == DoBatchSendFrom(Storage, height, m)
          IN (r.err = "Ok" /\ m.payload) =>
                r.messages =
                    <<BatchReceiveMsg(m.sender, m.from, m.to, Capped(m.from, m.batch))>>

\* The balances and supply counters of st are those of the current storage.
SameLedger(st) == st.balances = balances /\ st.token_count = token_count

\* C37: a self-transfer is a ledger no-op: every authorized send_from or
\* batch_send_from with from = to succeeds and leaves every balance and every
\* supply counter unchanged.  Stated here for the sources that hold a balance
\* record of every token named.
C37_SelfTransferNoOp ==
    /\ \A m \in LedgerSendArgs :
          (/\ ValidAddrs(m)
           /\ m.from = m.to
           /\ MayAct(m.sender, m.from)
           /\ HasRecord(Storage, m.from, m.token_id)) =>
              LET r == DoSendFrom(Storage, height, m)
              IN r.err = "Ok" /\ SameLedger(r.st)
    /\ \A m \in LedgerBatchSendArgs :
          (/\ m.from = m.to
           /\ MayAct(m.sender, m.from)
           /\ HasRecords(m.from, m.batch)) =>
              LET r == DoBatchSendFrom(Storage, height, m)
              IN r.err = "Ok" /\ SameLedger(r.st)

\* The storage st differs from the current one at most in the balances of
\* `caller' and in the supply counters, and for the tokens of toks only.
OnlyHoldingsOf(st, caller, toks) ==
    /\ \A a \in Addrs, t \in TokenIds :
          (a # caller \/ t \notin toks) => st.balances[<<a, t>>] = balances[<<a, t>>]
    /\ \A t \in TokenIds \ toks : st.token_count[t] = token_count[t]
    /\ st.approves = approves
    /\ st.tokens = tokens
    /\ st.minter = minter

Approved(o, p) ==
    /\ o # p
    /\ approves[<<o, p>>] # NoExpiration
    /\ ~is_expired(approves[<<o, p>>], height)

\* The message is rejected and the storage stays as it is; a batch without
\* items is answered Ok and moves nothing.
MovesNothing(r, items) ==
    /\ Committed(Storage, r) = Storage
    /\ items # <<>> => r.err # "Ok"

\* C39: an approval is directional and belongs to its grantor: while o's
\* approval of p is in force, it lets p send from o only.  o cannot send from
\* p, p cannot send from a third owner z that did not approve it, and no
\* other caller can send from o: each such send_from or batch_send_from is
\* rejected and moves nothing.
C39_ApprovalsDirectional ==
    \A o \in Addrs, p \in Addrs :
        Approved(o, p) =>
            /\ \A m \in FullSendArgs :
                  (/\ ValidAddrs(m)
                   /\ \/ (m.sender = o /\ m.from = p /\ ~Approved(p, o))
                      \/ (m.sender = p /\ m.from \notin {o, p} /\ ~Approved(m.from, p))
                      \/ (m.sender \notin {o, p} /\ m.from = o /\ ~Approved(o, m.sender))) =>
                      MovesNothing(DoSendFrom(Storage, height, m),
                                   <<TokenAmount(m.token_id, m.amount)>>)
            /\ \A m \in FullBatchSendArgs :
                  (\/ (m.sender = o /\ m.from = p /\ ~Approved(p, o))
                   \/ (m.sender = p /\ m.from \notin {o, p} /\ ~Approved(m.from, p))
                   \/ (m.sender \notin {o, p} /\ m.from = o /\ ~Approved(o, m.sender))) =>
                      MovesNothing(DoBatchSendFrom(Storage, height, m), m.batch)

\* C39 witness: p holds o's approval and can send o's unit, while o, who
\* holds no approval of p, is refused when it sends p's unit.
C39_Witness ==
    \E o \in Addrs, p \in Addrs, t \in TokenIds, u \in TokenIds :
        /\ Approved(o, p)
        /\ ~Approved(p, o)
        /\ Bal(Storage, o, t) = 1
        /\ Bal(Storage, p, u) = 1
        /\ send_from(Storage, height, p, o, p, t, 1, FALSE).err = "Ok"
        /\ send_from(Storage, height, o, p, o, u, 1, FALSE).err = "Unauthorized"

\* The errors execute_receive answers a rejected payment with.
ReceiveErrors ==
    {"UnauthorizedTokenContract", "Uninitialized", "SoldOut", "WrongPaymentAmount"}

\* C40: a failing execute_receive has no effect: whichever of
\* UnauthorizedTokenContract, Uninitialized, SoldOut and WrongPaymentAmount
\* it returns, the stored Config is the one before the call, unused_token_id
\* is not incremented and no Mint message is emitted.
C40_FailedReceiveHasNoEffect ==
    sale.config.saved =>
        \A m \in ReceiveArgs :
            LET r == DoReceive(sale, m)
            IN r.err # "Ok" =>
                  /\ r.err \in ReceiveErrors
                  /\ r.st = sale
                  /\ r.st.config.unused_token_id = sale.config.unused_token_id
                  /\ r.messages = <<>>

\* C40 witness: after a token was sold, and with tokens left, a payment of
\* the wrong amount by the linked cw20 contract is rejected.
C40_Witness ==
    /\ sale.config.saved
    /\ sale.config.unused_token_id > 0
    /\ sale.config.unused_token_id < sale.config.max_tokens
    /\ Len(minted) > 0
    /\ \E m \in ReceiveArgs :
          /\ m.info_sender = sale.config.cw20_address
          /\ DoReceive(sale, m).err = "WrongPaymentAmount"

====
